---- MODULE Spec2Model ----
(***************************************************************************)
(* A model of the kahoot-moph live quiz server (the WebSocket session      *)
(* server: rooms, game sessions, timers, scoring).  Strings that the code  *)
(* trims, slices or concatenates are sequences of one-character strings.   *)
(* Every handler of the server is one atomic action (Node runs each        *)
(* handler to completion on a single thread).  The room editor's store and *)
(* the rooms API of the web application are modelled at the end.           *)
(***************************************************************************)
EXTENDS Integers, Sequences, FiniteSets, Bags, TLC

VARIABLES
  roomsFile,     \* the parsed content of src/data/rooms.json
  allowedPins,   \* the cached allow-list
  rooms,         \* Map pin -> Map id -> {id, nickname}, in insertion order
  games,         \* Map pin -> game session
  sockets,       \* Map id -> connection
  conn,          \* per connection: the handler closure's state {id, pin} and readyState
  timers,        \* the pending setTimeout callbacks (a bag)
  now,           \* Date.now()
  nextId,        \* the number of ids makeId has produced
  sent,          \* the messages the last handler sent, in order
  lastOp,        \* the last handler that ran and its outcome
  hist,          \* what has been sent so far (history, for the properties)
  pts,           \* the scoring engine's inputs and result (SpecPoints)
  nick,          \* uniqueNickname's inputs and result (SpecNick)
  editor,        \* the room editor's upsertRoom calls in progress and the temp file
  http           \* a request to the rooms API, what it read and its response

vars == <<roomsFile, allowedPins, rooms, games, sockets, conn, timers, now,
          nextId, sent, lastOp, hist, pts, nick, editor, http>>

(***************************************************************************)
(* Program constants and the bounds of the model.                          *)
(***************************************************************************)
INTERMISSION_MS == 12000
PRE_START_MS == 5000
CLOSE_GRACE_MS == 50
NICK_MAX == 24
PROBE_END == 999

MaxIds == 3
MaxStarts == 1
MaxNow == 44100

Conns == {1, 2}

NoId == 0
NoTime == -1
NoPin == << >>

HOST_NICK == <<"(", "h", "o", "s", "t", ")">>
PLAYER_NICK == <<"P", "l", "a", "y", "e", "r">>

PinA == <<"7">>
PinB == <<"8">>
PinC == <<"6">>
PinUnknown == <<"9">>
KeyA == <<"k">>
KeyB == <<"m">>

\* A question's timerSeconds is the number timerSeconds + timerSixteenths / 16
\* (a number with a finite binary expansion, so that its product with 1000 is
\* exact in double precision); hasTimer tells whether it is a number at all.
NoQuiz == [loaded |-> FALSE, questions |-> << >>]

QuizA ==
  [loaded |-> TRUE,
   questions |-> << [correctIndex |-> 1, hasTimer |-> TRUE, timerSeconds |-> 5,
                     timerSixteenths |-> 0],
                    [correctIndex |-> 0, hasTimer |-> TRUE, timerSeconds |-> 3,
                     timerSixteenths |-> 0] >>]

QuizB == [loaded |-> TRUE, questions |-> << >>]

\* QuizA after its author has removed the second question
QuizEdited == [loaded |-> TRUE, questions |-> SubSeq(QuizA.questions, 1, 1)]

TitleA == <<"Q">>
TitleB == <<"R">>

\* The records of the rooms file, without their createdAt and updatedAt.
RoomsJson ==
  << [pin |-> <<" ", "7">>, title |-> TitleA, hostKey |-> KeyA, quiz |-> QuizA],
     [pin |-> PinB, title |-> TitleB, hostKey |-> KeyB, quiz |-> QuizB],
     [pin |-> PinC, title |-> TitleB, hostKey |-> KeyB, quiz |-> NoQuiz] >>

\* what the clients send while a game is played
GamePins == {<<"7", " ">>}
GameKeys == {<<" ", "k">>}
GameNicks == {<<"A", "l", "e", "x">>}
QuestionIndexInputs == {0, 1}
ChoiceInputs == {1, 4}

\* what the clients send in the lobby
PinInputs == {<<"7", " ">>, PinB, PinC, PinUnknown, <<" ">>}
KeyInputs == {<<" ", "k">>, KeyB, << >>}
NickInputs == {<<"A", "l", "e", "x">>, <<" ", "A", "l", "e", "x">>, HOST_NICK}

(***************************************************************************)
(* JavaScript helpers: Map, String.prototype.trim and slice.               *)
(***************************************************************************)
Has(m, k) == k \in DOMAIN m

Put(m, k, v) == [x \in (DOMAIN m) \cup {k} |-> IF x = k THEN v ELSE m[x]]

Del(m, k) == [x \in (DOMAIN m) \ {k} |-> m[x]]

EmptyMap == [x \in {} |-> 0]

Max(a, b) == IF a >= b THEN a ELSE b

Min(a, b) == IF a <= b THEN a ELSE b

RECURSIVE TrimStart(_)
TrimStart(s) ==
  IF s # << >> /\ Head(s) = " " THEN TrimStart(Tail(s)) ELSE s

RECURSIVE TrimEnd(_)
TrimEnd(s) ==
  IF s # << >> /\ s[Len(s)] = " " THEN TrimEnd(SubSeq(s, 1, Len(s) - 1)) ELSE s

Trim(s) == TrimEnd(TrimStart(s))

Slice(s, n) == SubSeq(s, 1, Min(n, Len(s)))

RECURSIVE Digits(_)
Digits(n) ==
  IF n < 10 THEN << SubSeq(<<"0","1","2","3","4","5","6","7","8","9">>, n + 1, n + 1)[1] >>
  ELSE Digits(n \div 10) \o Digits(n % 10)

(***************************************************************************)
(* The room directory, the connection registry and the dispatcher.         *)
(* The operators take the maps they read as arguments, so that a handler   *)
(* can apply them to the maps as it has updated them so far.               *)
(***************************************************************************)
loadAllowedPins(file) ==
  { Trim(file[i].pin) : i \in { j \in 1..Len(file) : Trim(file[j].pin) # << >> } }

\* the lookup that returns the first record whatever the PIN
loadRoomRecordFirst(file, pin) ==
  [found |-> TRUE, hostKey |-> file[1].hostKey, quiz |-> file[1].quiz]

loadRoomRecord(file, pin) ==
  LET hits == { i \in 1..Len(file) : Trim(file[i].pin) = pin }
  IN IF hits = {} THEN [found |-> FALSE, hostKey |-> << >>, quiz |-> NoQuiz]
     ELSE LET i == CHOOSE j \in hits : \A k \in hits : j <= k
          IN [found |-> TRUE, hostKey |-> file[i].hostKey, quiz |-> file[i].quiz]

listPlayers(rs, pin) == IF Has(rs, pin) THEN rs[pin] ELSE << >>

listRealPlayers(rs, pin) ==
  SelectSeq(listPlayers(rs, pin), LAMBDA p : p.nickname # HOST_NICK)

RoomSet(room, id, entry) ==
  IF \E i \in 1..Len(room) : room[i].id = id
  THEN [i \in 1..Len(room) |-> IF room[i].id = id THEN entry ELSE room[i]]
  ELSE Append(room, entry)

RoomDelete(room, id) == SelectSeq(room, LAMBDA p : p.id # id)

\* the payload sent to the open sockets of every room
sendToRoomOfAnyPin(rs, sk, cn, pin, payload) ==
  LET Entries(q) == SelectSeq(rs[q],
                      LAMBDA p : Has(sk, p.id) /\ cn[sk[p.id]].readyState = "OPEN")
      all == { <<q, i>> : q \in DOMAIN rs, i \in 1..3 }
      hit == { x \in all : x[2] <= Len(Entries(x[1])) }
      RECURSIVE Out(_)
      Out(S) == IF S = {} THEN << >>
                ELSE LET x == CHOOSE y \in S : TRUE
                         e == Entries(x[1])[x[2]]
                     IN << payload @@ [to |-> sk[e.id], via |-> e.id] >> \o Out(S \ {x})
  IN Out(hit)

sendToRoom(rs, sk, cn, pin, payload) ==
  IF ~Has(rs, pin) THEN << >>
  ELSE LET open == SelectSeq(rs[pin],
                     LAMBDA p : Has(sk, p.id) /\ cn[sk[p.id]].readyState = "OPEN")
       IN [i \in 1..Len(open) |-> payload @@ [to |-> sk[open[i].id], via |-> open[i].id]]

broadcastRoom(rs, sk, cn, pin) ==
  sendToRoom(rs, sk, cn, pin,
             [type |-> "room_update", pin |-> pin, players |-> listRealPlayers(rs, pin)])

NewGame ==
  [hostId |-> NoId, state |-> "waiting", quiz |-> NoQuiz, questionIndex |-> -1,
   questionStartedAt |-> NoTime, questionEndsAt |-> NoTime,
   answeredByQuestion |-> EmptyMap, scores |-> EmptyMap]

\* a fresh session put in place of the one there is
getOrCreateGameAnew(gs, pin) == Put(gs, pin, NewGame)

getOrCreateGame(gs, pin) == IF Has(gs, pin) THEN gs ELSE Put(gs, pin, NewGame)

ScoreOf(game, id) == IF Has(game.scores, id) THEN game.scores[id] ELSE 0

\* Array.prototype.sort is stable: an entry goes behind every entry whose
\* score is at least its own.
RECURSIVE SortByScoreDesc(_)
SortByScoreDesc(s) ==
  IF s = << >> THEN << >>
  ELSE LET rest == SortByScoreDesc(SubSeq(s, 1, Len(s) - 1))
           e == s[Len(s)]
           k == Cardinality({ i \in 1..Len(rest) : rest[i].score >= e.score })
       IN SubSeq(rest, 1, k) \o << e >> \o SubSeq(rest, k + 1, Len(rest))

computeLeaderboard(rs, gs, pin) ==
  IF ~Has(gs, pin) THEN << >>
  ELSE LET ps == listRealPlayers(rs, pin)
       IN SortByScoreDesc([i \in 1..Len(ps) |->
            [id |-> ps[i].id, nickname |-> ps[i].nickname, score |-> ScoreOf(gs[pin], ps[i].id)]])

Top3(leaderboard) == SubSeq(leaderboard, 1, Min(3, Len(leaderboard)))

NickTaken(players, name) == \E i \in 1..Len(players) : players[i].nickname = name

\* for (let i = 2; i < 999; i++): the first candidate from i on that no
\* player has, or the name made of the time when the loop runs out
ProbeNickname(players, base, i, t) ==
  LET candidate(j) == base \o <<" ">> \o Digits(j)
      free(j) == ~NickTaken(players, candidate(j))
  IN IF \E j \in i..(PROBE_END - 1) : free(j)
     THEN candidate(CHOOSE j \in i..(PROBE_END - 1) :
                      free(j) /\ \A k \in i..(j - 1) : ~free(k))
     ELSE base \o <<" ">> \o Digits(t % 1000)

\* uniqueNickname without the search for a free suffix
uniqueNicknameAsAsked(rs, pin, desiredNickname, t) ==
  LET sliced == Slice(Trim(desiredNickname), NICK_MAX)
  IN IF sliced = << >> THEN PLAYER_NICK ELSE sliced

uniqueNickname(rs, pin, desiredNickname, t) ==
  LET sliced == Slice(Trim(desiredNickname), NICK_MAX)
      base == IF sliced = << >> THEN PLAYER_NICK ELSE sliced
      players == listPlayers(rs, pin)
  IN IF ~NickTaken(players, base) THEN base
     ELSE ProbeNickname(players, base, 2, t)

(***************************************************************************)
(* The scoring engine.  computePoints works in IEEE-754 double precision:  *)
(* every operation rounds its exact result to 53 significant bits, ties to *)
(* even.  A value in [0, 2^IntBits) is a sequence of IntBits + FracBits    *)
(* bits, most significant first, with the binary point after IntBits.      *)
(***************************************************************************)
SigBits == 53
IntBits == 10
FracBits == 89
NumBits == IntBits + FracBits

BASE_POINTS == 500
BONUS_POINTS == 500

FpZero == [i \in 1..NumBits |-> 0]

FpOne == [i \in 1..NumBits |-> IF i = IntBits THEN 1 ELSE 0]

RECURSIVE Pow2(_)
Pow2(n) == IF n = 0 THEN 1 ELSE 2 * Pow2(n - 1)

\* the w low bits of v, most significant first
IntToBits(v, w) == [i \in 1..w |-> (v \div Pow2(w - i)) % 2]

\* The binary expansion of r / d for 0 <= r < d < 2^23, eight bits at a
\* time, n times, followed by one bit that tells whether anything is left
\* (the sticky bit).
RECURSIVE LongDiv(_, _, _)
LongDiv(r, d, n) ==
  IF n = 0 THEN << IF r # 0 THEN 1 ELSE 0 >>
  ELSE IntToBits((256 * r) \div d, 8) \o LongDiv((256 * r) % d, d, n - 1)

\* Round to nearest, ties to even, at SigBits significant bits.
FpRound(bits) ==
  IF \A i \in 1..NumBits : bits[i] = 0 THEN bits
     ELSE LET first == CHOOSE i \in 1..NumBits :
                         bits[i] = 1 /\ \A j \in 1..(i - 1) : bits[j] = 0
              last == first + SigBits - 1
          IN IF last >= NumBits THEN bits
             ELSE LET sticky == \E i \in (last + 2)..NumBits : bits[i] = 1
                      up == bits[last + 1] = 1 /\ (sticky \/ bits[last] = 1)
                      j == CHOOSE i \in 1..last :
                             bits[i] = 0 /\ \A k \in (i + 1)..last : bits[k] = 1
                  IN IF up
                     THEN [i \in 1..NumBits |->
                             IF i < j THEN bits[i] ELSE IF i = j THEN 1 ELSE 0]
                     ELSE [i \in 1..NumBits |-> IF i <= last THEN bits[i] ELSE 0]

\* elapsedMs / durationMs for 0 <= elapsedMs < durationMs
FpDivide(e, d) ==
  FpRound([i \in 1..IntBits |-> 0] \o LongDiv(e, d, (FracBits - 1) \div 8))

\* 1 - x for 0 <= x < 1
FpOneMinus(x) ==
  IF \A i \in 1..NumBits : x[i] = 0 THEN FpOne
     ELSE LET low == CHOOSE i \in 1..NumBits :
                       x[i] = 1 /\ \A j \in (i + 1)..NumBits : x[j] = 0
          IN FpRound([i \in 1..NumBits |->
                        IF i <= IntBits THEN 0 ELSE IF i < low THEN 1 - x[i] ELSE x[i]])

\* the value of the j-th group of nine bits of t
Limb(t, j) ==
  LET b == 9 * (j - 1)
  IN 256 * t[b + 1] + 128 * t[b + 2] + 64 * t[b + 3] + 32 * t[b + 4] + 16 * t[b + 5]
     + 8 * t[b + 6] + 4 * t[b + 7] + 2 * t[b + 8] + t[b + 9]

\* the limbs of k * t from limb j upwards, c carried in from below
RECURSIVE MulLimbs(_, _, _, _)
MulLimbs(k, t, j, c) ==
  IF j = 0 THEN << >>
  ELSE LET v == k * Limb(t, j) + c
       IN MulLimbs(k, t, j - 1, v \div 512) \o << v % 512 >>

\* k * t for a small integer k and 0 <= t <= 1
FpTimes(k, t) ==
  LET limbs == MulLimbs(k, t, NumBits \div 9, 0)
  IN FpRound([i \in 1..NumBits |->
                (limbs[((i - 1) \div 9) + 1] \div Pow2(8 - ((i - 1) % 9))) % 2])

RECURSIVE FpFloorFrom(_, _)
FpFloorFrom(bits, i) ==
  IF i = 0 THEN 0 ELSE 2 * FpFloorFrom(bits, i - 1) + bits[i]

FpFloor(bits) == FpFloorFrom(bits, IntBits)

\* Math.max(0, Math.min(1, 1 - elapsedMs / Math.max(1, durationMs)))
TimeFactor(elapsedMs, durationMs) ==
  LET d == Max(1, durationMs)
  IN IF elapsedMs >= d THEN FpZero
     ELSE IF elapsedMs <= 0 THEN FpOne
     ELSE FpOneMinus(FpDivide(elapsedMs, d))

computePoints(correct, elapsedMs, durationMs) ==
  IF ~correct THEN 0
  ELSE BASE_POINTS + FpFloor(FpTimes(BONUS_POINTS, TimeFactor(elapsedMs, durationMs)))

(***************************************************************************)
(* The state after the server has started and the clients have connected.  *)
(***************************************************************************)
NoOp == [op |-> "init", accepted |-> FALSE, k |-> -1]

Op(name, accepted, k) == [op |-> name, accepted |-> accepted, k |-> k]

NoHist ==
  [arEver |-> EmptyMap,     \* answer_results sent, per <<pin, id, questionIndex>>
   arRun |-> EmptyMap,      \* the same, since the pin's last accepted host_start
   deltaSum |-> EmptyMap,   \* sum of the deltas sent, per <<pin, id>>, since then
   joined |-> {},           \* ids admitted by join (players), still connected or abandoned
   hostLeft |-> {},         \* pins whose host connection closed while running
   run |-> EmptyMap,        \* per pin, the accepted host_starts and host-left resets
   overs |-> EmptyMap,      \* per pin, the question_overs sent since the last question
   starts |-> 0]            \* accepted host_starts

NoPts == [correct |-> FALSE, elapsedMs |-> 0, durationMs |-> 1, result |-> 0, done |-> FALSE]

NoNick == [players |-> << >>, desired |-> << >>, t |-> 0, result |-> << >>, done |-> FALSE]

NoFile == [exists |-> FALSE, rooms |-> << >>]

NoEditor == [tmp |-> NoFile, calls |-> << >>]

NoHttp == [method |-> "none"]

\* the variables of the session server
ServerVars == <<roomsFile, allowedPins, rooms, games, sockets, conn, timers, now, nextId,
                sent, lastOp, hist>>

\* nothing but the session server is looked at
NoCalls == nick = NoNick /\ editor = NoEditor /\ http = NoHttp

\* the server has started and the clients have connected
StartedWith(file) ==
  /\ roomsFile = file
  /\ allowedPins = loadAllowedPins(file)
  /\ rooms = EmptyMap
  /\ games = EmptyMap
  /\ sockets = EmptyMap
  /\ conn = [c \in Conns |-> [id |-> NoId, pin |-> NoPin, readyState |-> "OPEN"]]
  /\ timers = EmptyBag
  /\ now = 0
  /\ nextId = 0
  /\ sent = << >>
  /\ lastOp = NoOp
  /\ hist = NoHist

Started == StartedWith(RoomsJson)

Init == Started /\ pts = NoPts /\ NoCalls

\* Math.random().toString(36).slice(2, 10): a value no earlier call returned
makeId == nextId + 1

Reply(c, id, payload) == payload @@ [to |-> c, via |-> id]

\* the error written to another connection than the sender's
ErrorMsgToOther(c, code, message) ==
  Reply(CHOOSE d \in Conns : d # c, NoId,
        [type |-> "error", code |-> code, message |-> message])

\* ws.send(JSON.stringify({ type: "error", ... })) on the sender's socket
ErrorMsg(c, code, message) ==
  Reply(c, NoId, [type |-> "error", code |-> code, message |-> message])

Questions(game) == game.quiz.questions

\* the number of half milliseconds cut to whole milliseconds
MathTrunc(halves) == halves \div 2

\* Math.round of a number of half milliseconds: the nearest integer, a
\* half going up
MathRound(halves) == (halves + 1) \div 2

\* timerSeconds * 1000, in half milliseconds
TimerHalves(q) ==
  IF q.hasTimer THEN q.timerSeconds * 2000 + q.timerSixteenths * 125 ELSE 10 * 2000

durationMsOf(q) == Max(5000, Min(300000, MathRound(TimerHalves(q))))

\* the question payload carrying the start of the question as its end
QuestionMsgStartedAt(pin, game) ==
  [type |-> "question", pin |-> pin, questionIndex |-> game.questionIndex,
   totalQuestions |-> Len(Questions(game)), endsAt |-> game.questionStartedAt]

QuestionMsg(pin, game) ==
  [type |-> "question", pin |-> pin, questionIndex |-> game.questionIndex,
   totalQuestions |-> Len(Questions(game)), endsAt |-> game.questionEndsAt]

\* the run of a pin: how often its session has been reset so far (history)
RunOf(pin) == IF Has(hist.run, pin) THEN hist.run[pin] ELSE 0

\* a pending setTimeout callback with what its closure captured; run is the
\* run in which it was armed (history, read by the properties only)
Timer(kind, pin, k, due) ==
  [kind |-> kind, pin |-> pin, questionIndex |-> k, due |-> due, run |-> RunOf(pin)]

Arm(ts, t) == ts (+) SetToBag({t})

\* the next index taken two further
NextIndexSkipping(game) == game.questionIndex + 2

\* const nextIndex = game.questionIndex + 1
NextIndex(game) == game.questionIndex + 1

\* startQuestion(pin): the maps after it, what it sent and the timers it armed
startQuestion(gs0, rs, sk, cn, pin, t) ==
  LET gs == getOrCreateGame(gs0, pin)
      game == gs[pin]
      questions == Questions(game)
      nextIndex == NextIndex(game)
  IN IF nextIndex >= Len(questions)
     THEN LET gs1 == [gs EXCEPT ![pin].state = "ended"]
              leaderboard == computeLeaderboard(rs, gs1, pin)
          IN [games |-> gs1,
              msgs |-> sendToRoom(rs, sk, cn, pin,
                         [type |-> "game_over", pin |-> pin, leaderboard |-> leaderboard,
                          top3 |-> Top3(leaderboard)]),
              arm |-> EmptyBag]
     ELSE LET durationMs == durationMsOf(questions[nextIndex + 1])
              endsAt == t + durationMs
              g1 == [game EXCEPT !.state = "running", !.questionIndex = nextIndex,
                                 !.questionStartedAt = t, !.questionEndsAt = endsAt,
                                 !.answeredByQuestion =
                                    IF Has(@, nextIndex) THEN @ ELSE Put(@, nextIndex, {})]
          IN [games |-> [gs EXCEPT ![pin] = g1],
              msgs |-> sendToRoom(rs, sk, cn, pin, QuestionMsg(pin, g1)),
              arm |-> SetToBag({Timer("close", pin, nextIndex, t + durationMs + CLOSE_GRACE_MS)})]

\* endQuestion without the check of the question index
EndQuestionGuardAnyIndex(gs, pin, k) == Has(gs, pin) /\ gs[pin].state = "running"

\* the three early returns of endQuestion
EndQuestionGuard(gs, pin, k) ==
  Has(gs, pin) /\ gs[pin].state = "running" /\ gs[pin].questionIndex = k

\* the intermission callback checking for the index of the next question
IntermissionGuardNextIndex(gs, pin, k) ==
  Has(gs, pin) /\ gs[pin].state = "running" /\ gs[pin].questionIndex = k + 1

\* the early returns of the intermission callback
IntermissionGuard(gs, pin, k) ==
  Has(gs, pin) /\ gs[pin].state = "running" /\ gs[pin].questionIndex = k

\* the early returns of the pre-start callback
PreStartGuard(gs, pin) ==
  Has(gs, pin) /\ gs[pin].state = "running" /\ gs[pin].questionIndex = -1

\* endQuestion(pin, questionIndex) once its guards have passed
endQuestion(gs, rs, sk, cn, pin, k, t) ==
  LET leaderboard == computeLeaderboard(rs, gs, pin)
  IN [games |-> gs,
      msgs |-> sendToRoom(rs, sk, cn, pin,
                 [type |-> "question_over", pin |-> pin, questionIndex |-> k,
                  nextQuestionAt |-> t + INTERMISSION_MS, leaderboard |-> leaderboard,
                  top3 |-> Top3(leaderboard)]),
      arm |-> SetToBag({Timer("intermission", pin, k, t + INTERMISSION_MS)})]

(***************************************************************************)
(* The message handlers.  c is the connection the message arrived on.      *)
(***************************************************************************)
Open(c) == conn[c].readyState = "OPEN"

\* msg.type === "join", id being what makeId returns
JoinWithId(c, rawPin, nickname, id) ==
  LET pin == Trim(rawPin)
      pins == loadAllowedPins(roomsFile)
  IN /\ Open(c)
     /\ allowedPins' = pins
     /\ IF pin \notin pins
        THEN /\ sent' = << ErrorMsg(c, "INVALID_PIN", "Invalid game PIN") >>
             /\ lastOp' = Op("join", FALSE, -1)
             /\ UNCHANGED <<rooms, games, sockets, conn, nextId, hist>>
        ELSE LET cn == [conn EXCEPT ![c].id = id, ![c].pin = pin]
                 gs0 == getOrCreateGame(games, pin)
                 gs == IF Has(gs0[pin].scores, id) THEN gs0
                       ELSE [gs0 EXCEPT ![pin].scores = Put(@, id, 0)]
                 rs0 == Put(rooms, pin, listPlayers(rooms, pin))
                 finalNickname == uniqueNickname(rs0, pin, nickname, now)
                 rs == [rs0 EXCEPT ![pin] =
                          RoomSet(@, id, [id |-> id, nickname |-> finalNickname])]
                 sk == Put(sockets, id, c)
                 welcome == Reply(c, id, [type |-> "welcome", id |-> id, pin |-> pin,
                                          nickname |-> finalNickname,
                                          players |-> listRealPlayers(rs, pin)])
                 catchUp == IF gs[pin].state = "running" /\ gs[pin].questionEndsAt # NoTime
                            THEN << Reply(c, id, QuestionMsg(pin, gs[pin])) >>
                            ELSE << >>
             IN /\ nextId' = nextId + 1
                /\ conn' = cn
                /\ games' = gs
                /\ rooms' = rs
                /\ sockets' = sk
                /\ sent' = << welcome >> \o broadcastRoom(rs, sk, cn, pin) \o catchUp
                /\ hist' = [hist EXCEPT !.joined = @ \cup {id}]
                /\ lastOp' = Op("join", TRUE, -1)
     /\ UNCHANGED <<roomsFile, timers, now, pts, nick, editor, http>>

Join(c, rawPin, nickname) == JoinWithId(c, rawPin, nickname, makeId)

\* msg.type === "host_join", id being what makeId returns
HostJoinWithId(c, rawPin, rawKey, id) ==
  LET pin == Trim(rawPin)
      hostKey == Trim(rawKey)
      pins == loadAllowedPins(roomsFile)
      record == loadRoomRecord(roomsFile, pin)
      reject(code, message) ==
        /\ sent' = << ErrorMsg(c, code, message) >>
        /\ lastOp' = Op("host_join", FALSE, -1)
        /\ UNCHANGED <<rooms, games, sockets, conn, nextId, hist>>
  IN /\ Open(c)
     /\ IF pin = << >> \/ hostKey = << >>
        THEN reject("", "Missing PIN or host key") /\ UNCHANGED allowedPins
        ELSE /\ allowedPins' = pins
             /\ IF pin \notin pins
                THEN reject("INVALID_PIN", "Invalid game PIN")
                ELSE IF ~record.found \/ record.hostKey # hostKey
                THEN reject("HOST_KEY_INVALID", "Invalid host key")
                ELSE LET cn == [conn EXCEPT ![c].id = id, ![c].pin = pin]
                         sk == Put(sockets, id, c)
                         rs == [Put(rooms, pin, listPlayers(rooms, pin)) EXCEPT ![pin] =
                                  RoomSet(@, id, [id |-> id, nickname |-> HOST_NICK])]
                         gs == [getOrCreateGame(games, pin) EXCEPT
                                  ![pin].hostId = id, ![pin].quiz = record.quiz]
                         welcome == Reply(c, id,
                                      [type |-> "host_welcome", id |-> id, pin |-> pin,
                                       players |-> listRealPlayers(rs, pin),
                                       state |-> gs[pin].state,
                                       questionIndex |-> gs[pin].questionIndex])
                     IN /\ nextId' = nextId + 1
                        /\ conn' = cn
                        /\ sockets' = sk
                        /\ rooms' = rs
                        /\ games' = gs
                        /\ sent' = << welcome >> \o broadcastRoom(rs, sk, cn, pin)
                        /\ hist' = [hist EXCEPT !.joined = @ \ {id}]
                        /\ lastOp' = Op("host_join", TRUE, -1)
     /\ UNCHANGED <<roomsFile, timers, now, pts, nick, editor, http>>

HostJoin(c, rawPin, rawKey) == HostJoinWithId(c, rawPin, rawKey, makeId)

\* the host check reduced to the check that the sender has an id
NotHostOnlyNoId(id, game) == id = NoId

\* !state.id || game.hostId !== state.id
NotHost(id, game) == id = NoId \/ game.hostId # id

\* !game.quiz || !Array.isArray(game.quiz?.questions) || game.quiz.questions.length === 0
NoQuizFound(game) == ~game.quiz.loaded \/ Len(game.quiz.questions) = 0

\* game.scores = new Map(); for (const p of listRealPlayers(pin)) game.scores.set(p.id, 0)
ResetScores(game, ps) == [x \in { ps[i].id : i \in 1..Len(ps) } |-> 0]

\* a history map without the entries of a PIN, or of a participant id
DropPin(m, pin) == [x \in { y \in DOMAIN m : y[1] # pin } |-> m[x]]

DropId(m, id) == [x \in { y \in DOMAIN m : y[2] # id } |-> m[x]]

Bump(m, x) == Put(m, x, IF Has(m, x) THEN Min(2, m[x] + 1) ELSE 1)

\* the history of an id ends when its connection closes: no message arrives
\* on a closed connection
Forget(h, id) ==
  [h EXCEPT !.arEver = DropId(@, id), !.arRun = DropId(@, id), !.deltaSum = DropId(@, id),
            !.joined = @ \ {id}]

\* msg.type === "host_start"
HostStart(c, rawPin) ==
  LET pin == Trim(rawPin)
      id == conn[c].id
      gs == getOrCreateGame(games, pin)
      reject(message) ==
        /\ sent' = << ErrorMsg(c, "", message) >>
        /\ lastOp' = Op("host_start", FALSE, -1)
        /\ UNCHANGED <<timers, hist>>
  IN /\ Open(c)
     /\ IF pin = << >> \/ conn[c].pin # pin
        THEN reject("Invalid PIN") /\ UNCHANGED games
        ELSE IF NotHost(id, gs[pin])
        THEN reject("Not host") /\ games' = gs
        ELSE IF NoQuizFound(gs[pin])
        THEN reject("No quiz found") /\ games' = gs
        ELSE LET ps == listRealPlayers(rooms, pin)
                 g1 == [gs[pin] EXCEPT
                          !.state = "running", !.questionIndex = -1,
                          !.questionStartedAt = NoTime, !.questionEndsAt = NoTime,
                          !.answeredByQuestion = EmptyMap,
                          !.scores = ResetScores(gs[pin], ps)]
             IN /\ games' = [gs EXCEPT ![pin] = g1]
                /\ sent' = sendToRoom(rooms, sockets, conn, pin,
                              [type |-> "starting", pin |-> pin,
                               startsAt |-> now + PRE_START_MS])
                /\ timers' = Arm(timers, [Timer("prestart", pin, -1, now + PRE_START_MS)
                                            EXCEPT !.run = @ + 1])
                /\ hist' = [hist EXCEPT
                              !.arRun = DropPin(@, pin),
                              !.deltaSum = DropPin(@, pin),
                              !.hostLeft = @ \ {pin},
                              !.run = Put(@, pin, RunOf(pin) + 1),
                              !.overs = Put(@, pin, 0),
                              !.starts = @ + 1]
                /\ lastOp' = Op("host_start", TRUE, -1)
     /\ UNCHANGED <<roomsFile, allowedPins, rooms, sockets, conn, now, nextId, pts, nick, editor, http>>

\* the score replaced by the last delta instead of increased by it
NextScoreOverwritten(game, id, delta) == delta

\* the score increased by twice the delta
NextScoreDoubled(game, id, delta) == ScoreOf(game, id) + delta + delta

\* (game.scores.get(state.id) ?? 0) + delta
NextScore(game, id, delta) == ScoreOf(game, id) + delta

\* the answer_result sent to the whole room
AnswerReplyToRoom(c, id, rs, sk, cn, payload) == sendToRoom(rs, sk, cn, payload.pin, payload)

\* ws.send of the answer_result: to the sender alone
AnswerReply(c, id, rs, sk, cn, payload) == << Reply(c, id, payload) >>

\* the answer handler without the check of the answered set
AnswerGuardsNoAnsweredSet(c, pin, questionIndex, choiceIndex) ==
  /\ pin # << >> /\ conn[c].id # NoId /\ conn[c].pin = pin
  /\ Has(games, pin) /\ games[pin].state = "running"
  /\ questionIndex = games[pin].questionIndex
  /\ ~(choiceIndex < 0 \/ choiceIndex > 3)
  /\ games[pin].questionStartedAt # NoTime /\ games[pin].questionEndsAt # NoTime

\* the answer handler without the check of the choice range
AnswerGuardsAnyChoice(c, pin, questionIndex, choiceIndex) ==
  /\ pin # << >> /\ conn[c].id # NoId /\ conn[c].pin = pin
  /\ Has(games, pin) /\ games[pin].state = "running"
  /\ questionIndex = games[pin].questionIndex
  /\ games[pin].questionStartedAt # NoTime /\ games[pin].questionEndsAt # NoTime
  /\ ~(Has(games[pin].answeredByQuestion, questionIndex)
       /\ conn[c].id \in games[pin].answeredByQuestion[questionIndex])

\* the early returns of the answer handler: TRUE when none is taken
AnswerGuards(c, pin, questionIndex, choiceIndex) ==
  /\ pin # << >> /\ conn[c].id # NoId /\ conn[c].pin = pin
  /\ Has(games, pin) /\ games[pin].state = "running"
  /\ questionIndex = games[pin].questionIndex
  /\ ~(choiceIndex < 0 \/ choiceIndex > 3)
  /\ games[pin].questionStartedAt # NoTime /\ games[pin].questionEndsAt # NoTime
  /\ ~(Has(games[pin].answeredByQuestion, questionIndex)
       /\ conn[c].id \in games[pin].answeredByQuestion[questionIndex])

\* msg.type === "answer"
Answer(c, rawPin, questionIndex, choiceIndex) ==
  LET pin == Trim(rawPin)
      id == conn[c].id
  IN /\ Open(c)
     /\ IF ~AnswerGuards(c, pin, questionIndex, choiceIndex)
        THEN /\ sent' = << >>
             /\ lastOp' = Op("answer", FALSE, -1)
             /\ UNCHANGED <<games, hist>>
        ELSE LET game == games[pin]
                 answeredSet == IF Has(game.answeredByQuestion, questionIndex)
                                THEN game.answeredByQuestion[questionIndex] ELSE {}
                 questions == Questions(game)
                 correctIndex == IF questionIndex + 1 \in 1..Len(questions)
                                 THEN questions[questionIndex + 1].correctIndex ELSE -1
                 correct == choiceIndex = correctIndex
                 elapsedMs == now - game.questionStartedAt
                 durationMs == game.questionEndsAt - game.questionStartedAt
                 delta == computePoints(correct, elapsedMs, durationMs)
                 nextScore == NextScore(game, id, delta)
             IN /\ games' = [games EXCEPT
                               ![pin].answeredByQuestion =
                                  Put(@, questionIndex, answeredSet \cup {id}),
                               ![pin].scores = Put(@, id, nextScore)]
                /\ sent' = AnswerReply(c, id, rooms, sockets, conn,
                               [type |-> "answer_result", pin |-> pin,
                                questionIndex |-> questionIndex, correct |-> correct,
                                delta |-> delta, total |-> nextScore])
                /\ hist' = [hist EXCEPT
                              !.arEver = Bump(@, <<pin, id, questionIndex>>),
                              !.arRun = Bump(@, <<pin, id, questionIndex>>),
                              !.deltaSum = Put(@, <<pin, id>>,
                                 (IF Has(@, <<pin, id>>) THEN @[<<pin, id>>] ELSE 0) + delta)]
                /\ lastOp' = Op("answer", TRUE, questionIndex)
     /\ UNCHANGED <<roomsFile, allowedPins, rooms, sockets, conn, timers, now, nextId, pts, nick, editor, http>>

\* a body that JSON.parse rejects, or a message of any other type
Other(c, kind) ==
  /\ Open(c)
  /\ sent' = << ErrorMsg(c, "",
                  IF kind = "invalid_json" THEN "Invalid JSON" ELSE "Unknown message type") >>
  /\ lastOp' = Op(kind, FALSE, -1)
  /\ UNCHANGED <<roomsFile, allowedPins, rooms, games, sockets, conn, timers, now,
                 nextId, hist, pts, nick, editor, http>>

\* the reset that ignores the state of the session
HostLeftResetAlways(game) == TRUE

\* if (game.state === "running"), in the host branch of the close handler
HostLeftReset(game) == game.state = "running"

\* every closing connection taken for the host's
IsRegisteredHostAny(game, id) == TRUE

\* const isHost = game.hostId === id, in the close handler
IsRegisteredHost(game, id) == game.hostId = id

\* the pins whose registered host is reached through connection c
HostedBy(c) ==
  { p \in DOMAIN games :
      games[p].hostId # NoId /\ Has(sockets, games[p].hostId) /\ sockets[games[p].hostId] = c }

\* ws.on("close")
Close(c) ==
  LET id == conn[c].id
      pin == conn[c].pin
      cn == [conn EXCEPT ![c].readyState = "CLOSED"]
      left == { p \in HostedBy(c) : games[p].state = "running" }
      resets == /\ id # NoId /\ pin # NoPin /\ Has(games, pin)
                /\ IsRegisteredHost(games[pin], id) /\ HostLeftReset(games[pin])
  IN /\ Open(c)
     /\ conn' = cn
     /\ hist' = [Forget(hist, id) EXCEPT
                   !.hostLeft = @ \cup left,
                   !.run = IF resets THEN Put(@, pin, RunOf(pin) + 1) ELSE @,
                   !.overs = IF resets THEN Put(@, pin, 0) ELSE @]
     /\ lastOp' = Op("disconnect", id # NoId /\ pin # NoPin, -1)
     /\ IF id = NoId \/ pin = NoPin
        THEN /\ sent' = << >>
             /\ UNCHANGED <<rooms, games, sockets>>
        ELSE LET sk == Del(sockets, id)
                 room == RoomDelete(listPlayers(rooms, pin), id)
                 rs == IF ~Has(rooms, pin) THEN rooms
                       ELSE IF Len(room) = 0 THEN Del(rooms, pin)
                       ELSE [rooms EXCEPT ![pin] = room]
                 update == IF Has(rooms, pin) /\ Len(room) # 0
                           THEN broadcastRoom(rs, sk, cn, pin) ELSE << >>
                 g0 == games[pin]
                 g1 == [g0 EXCEPT
                          !.scores = Del(@, id),
                          !.answeredByQuestion =
                             IF Has(@, g0.questionIndex)
                             THEN [@ EXCEPT ![g0.questionIndex] = @ \ {id}] ELSE @]
                 isHost == IsRegisteredHost(g0, id)
                 reset == isHost /\ HostLeftReset(g0)
                 g2 == IF ~isHost THEN g1
                       ELSE IF ~reset THEN [g1 EXCEPT !.hostId = NoId]
                       ELSE [g1 EXCEPT !.hostId = NoId, !.state = "waiting",
                                       !.questionIndex = -1,
                                       !.questionStartedAt = NoTime,
                                       !.questionEndsAt = NoTime]
             IN /\ sockets' = sk
                /\ rooms' = rs
                /\ games' = IF Has(games, pin) THEN [games EXCEPT ![pin] = g2] ELSE games
                /\ sent' = update \o
                           (IF Has(games, pin) /\ reset
                            THEN sendToRoom(rs, sk, cn, pin, [type |-> "host_left", pin |-> pin])
                            ELSE << >>)
     /\ UNCHANGED <<roomsFile, allowedPins, timers, now, nextId, pts, nick, editor, http>>

\* a setTimeout callback runs
Fire(t) ==
  LET rest == timers (-) SetToBag({t})
      pin == t.pin
      k == t.questionIndex
      pass == CASE t.kind = "close" -> EndQuestionGuard(games, pin, k)
                [] t.kind = "intermission" -> IntermissionGuard(games, pin, k)
                [] OTHER -> PreStartGuard(games, pin)
      eff == IF t.kind = "close"
             THEN endQuestion(games, rooms, sockets, conn, pin, k, now)
             ELSE startQuestion(games, rooms, sockets, conn, pin, now)
      started == IF t.kind = "prestart"
                 THEN sendToRoom(rooms, sockets, conn, pin, [type |-> "game_started", pin |-> pin])
                 ELSE << >>
  IN /\ BagIn(t, timers)
     /\ t.due <= now
     /\ lastOp' = Op(t.kind, pass, k)
     /\ IF pass
        THEN /\ games' = eff.games
             /\ sent' = started \o eff.msgs
             /\ timers' = rest (+) eff.arm
             /\ hist' = [hist EXCEPT !.overs =
                           IF t.kind = "close" THEN Bump(@, pin) ELSE Put(@, pin, 0)]
        ELSE /\ sent' = << >>
             /\ timers' = rest
             /\ UNCHANGED <<games, hist>>
     /\ UNCHANGED <<roomsFile, allowedPins, rooms, sockets, conn, now, nextId, pts, nick, editor, http>>

Dues == { t.due : t \in BagToSet(timers) }

\* time passes; a callback runs when it is due
Tick ==
  /\ timers # EmptyBag
  /\ \E t \in Dues :
       /\ t > now
       /\ t <= MaxNow
       /\ \A due \in Dues : t <= due
       /\ now' = t
  /\ sent' = << >>
  /\ lastOp' = Op("tick", TRUE, -1)
  /\ UNCHANGED <<roomsFile, allowedPins, rooms, games, sockets, conn, timers, nextId,
                 hist, pts, nick, editor, http>>

\* Connections are alike: a client uses a connection only when every
\* connection before it has been used.
InUse(c) == \A b \in Conns : b < c => (conn[b].id # NoId \/ ~Open(b))

\* Only the host's page has the start button.
IsHost(c, pin) == Has(games, pin) /\ conn[c].id # NoId /\ games[pin].hostId = conn[c].id

\* what makeId can return: a value no earlier call returned or, when two
\* random ids collide, one that an earlier call returned
IdsDrawn(collide) == IF collide THEN 1..(nextId + 1) ELSE {makeId}

\* a game is played: at most ids participants ever, at most starts
\* host_starts, players asking for the names nicks
PlayIn(pins, keys, ids, starts, nicks, collide) ==
  \/ \E c \in Conns, p \in pins, n \in nicks, id \in IdsDrawn(collide) :
       InUse(c) /\ nextId < ids /\ JoinWithId(c, p, n, id)
  \/ \E c \in Conns, p \in pins, key \in keys, id \in IdsDrawn(collide) :
       InUse(c) /\ nextId < ids /\ HostJoinWithId(c, p, key, id)
  \/ \E c \in Conns, p \in pins :
       IsHost(c, Trim(p)) /\ hist.starts < starts /\ HostStart(c, p)
  \/ \E c \in Conns, p \in pins, k \in QuestionIndexInputs, ch \in ChoiceInputs :
       Answer(c, p, k, ch)
  \/ \E c \in Conns : Close(c)
  \/ \E t \in BagToSet(timers) : Fire(t)
  \/ Tick

\* a game in the room of the one PIN the clients of a game use
PlayWith(ids, starts, nicks, collide) == PlayIn(GamePins, GameKeys, ids, starts, nicks, collide)

Play(ids, starts) == PlayWith(ids, starts, GameNicks, FALSE)

Next == Play(MaxIds, MaxStarts)

Spec == Init /\ [][Next]_vars

\* the same game with one participant fewer and one more host_start
NextRestart == Play(MaxIds - 1, MaxStarts + 1)

SpecRestart == Init /\ [][NextRestart]_vars

\* a game with one participant fewer, in which players ask for the name "(host)"
NextNames == PlayWith(MaxIds - 1, MaxStarts, {HOST_NICK}, FALSE)

SpecNames == Init /\ [][NextNames]_vars

\* a game with one participant fewer, in which two random ids can collide
NextCollide == PlayWith(MaxIds - 1, MaxStarts, GameNicks, TRUE)

SpecCollide == Init /\ [][NextCollide]_vars

\* a game with one participant fewer, in which every due timer fires
SpecFair ==
  /\ Init
  /\ [][Play(MaxIds - 1, MaxStarts)]_vars
  /\ WF_vars(Tick)
  /\ WF_vars(\E t \in BagToSet(timers) : Fire(t))

(***************************************************************************)
(* The room editor's store (rooms-store.ts).  A document is the sequence   *)
(* of the records of the file; params is what upsertRoom is called with:   *)
(* title, quiz (hasQuiz telling whether one is given), pin and hostKey,    *)
(* the last two empty when they are not given.                             *)
(***************************************************************************)
TITLE_MAX == 80

UNTITLED == <<"U", "n", "t", "i", "t", "l", "e", "d", " ", "q", "u", "i", "z">>

\* params.title.trim().slice(0, 80) || "Untitled quiz"
cleanTitle(title) ==
  LET cut == Slice(Trim(title), TITLE_MAX)
  IN IF cut = << >> THEN UNTITLED ELSE cut

\* data.rooms.findIndex((r) => r.pin === params.pin), 0 for -1
findIndex(data, pin) ==
  LET hits == { i \in 1..Len(data) : data[i].pin = pin }
  IN IF hits = {} THEN 0 ELSE CHOOSE j \in hits : \A k \in hits : j <= k

\* the key check that only refuses a room without a key
HostKeyInvalidOnlyMissing(existing, hostKey) == existing.hostKey = << >>

\* !existing.hostKey || existing.hostKey !== params.hostKey
HostKeyInvalid(existing, hostKey) ==
  existing.hostKey = << >> \/ existing.hostKey # hostKey

NoResult == [pin |-> << >>, title |-> << >>, hostKey |-> << >>]

Thrown(data, code) == [error |-> code, rooms |-> data, result |-> NoResult]

\* upsertRoom between its read and its write: the error it throws or the
\* document it is going to write and the value it is going to return.
\* pinDrawn is the free pin its draws have come to (empty when all twenty
\* were taken), keyDrawn the key randomUUID has given.
upsertPlan(data, params, pinDrawn, keyDrawn) ==
  IF params.pin # << >>
  THEN LET idx == findIndex(data, params.pin)
       IN IF idx = 0 THEN Thrown(data, "PIN_NOT_FOUND")
          ELSE IF HostKeyInvalid(data[idx], params.hostKey)
          THEN Thrown(data, "HOST_KEY_INVALID")
          ELSE [error |-> "",
                rooms |-> [data EXCEPT
                             ![idx].title = cleanTitle(params.title),
                             ![idx].quiz = IF params.hasQuiz THEN params.quiz ELSE @],
                result |-> [pin |-> data[idx].pin, title |-> cleanTitle(params.title),
                            hostKey |-> data[idx].hostKey]]
  ELSE IF pinDrawn = << >> THEN Thrown(data, "PIN_GENERATION_FAILED")
       ELSE [error |-> "",
             rooms |-> Append(data, [pin |-> pinDrawn, title |-> cleanTitle(params.title),
                                     hostKey |-> keyDrawn,
                                     quiz |-> IF params.hasQuiz THEN params.quiz ELSE NoQuiz]),
             result |-> [pin |-> pinDrawn, title |-> cleanTitle(params.title),
                         hostKey |-> keyDrawn]]

\* what the draws of a pin can come to: a candidate that is not in use or,
\* when pins are in use, twenty candidates that all are
PinsDrawn(data, candidates) ==
  { c \in candidates : \A i \in 1..Len(data) : data[i].pin # c }
    \cup (IF data = << >> THEN {} ELSE {<< >>})

\* upsertRoom run from its read to its rename with no other call in between
upsertRoom(file, params, pinDrawn, keyDrawn) == upsertPlan(file, params, pinDrawn, keyDrawn)

\* the host saves a quiz for the room of pin from the editor
Upsert(pin, hostKey, quiz) ==
  /\ roomsFile' = upsertRoom(roomsFile,
                     [title |-> TitleA, hasQuiz |-> TRUE, quiz |-> quiz, pin |-> pin,
                      hostKey |-> hostKey], << >>, << >>).rooms
  /\ roomsFile' # roomsFile
  /\ sent' = << >>
  /\ lastOp' = Op("upsert", TRUE, -1)
  /\ UNCHANGED <<allowedPins, rooms, games, sockets, conn, timers, now, nextId, hist, pts, nick, editor, http>>

\* a game with one participant fewer, during which the quiz is edited
NextEdit ==
  \/ Play(MaxIds - 1, MaxStarts)
  \/ \E key \in {KeyA, KeyB} : Upsert(RoomsJson[1].pin, key, QuizEdited)

SpecEdit == Init /\ [][NextEdit]_vars

\* two rooms with a quiz each, a game in either, and host_starts sent by
\* connections that are not the host of the room they name
RoomPins == {<<"7", " ">>, PinB}
RoomKeys == {<<" ", "k">>, KeyB}

RoomsJsonTwoQuizzes == [RoomsJson EXCEPT ![2].quiz = QuizEdited]

InitRooms == StartedWith(RoomsJsonTwoQuizzes) /\ pts = NoPts /\ NoCalls

NextRooms ==
  \/ PlayIn(RoomPins, RoomKeys, MaxIds - 1, MaxStarts, GameNicks, FALSE)
  \/ \E c \in Conns, p \in RoomPins : ~IsHost(c, Trim(p)) /\ HostStart(c, p)

SpecRooms == InitRooms /\ [][NextRooms]_vars

\* a game on a quiz of one question whose timerSeconds is any kind of value
TimerInputs ==
  { [correctIndex |-> 1, hasTimer |-> h, timerSeconds |-> n, timerSixteenths |-> x] :
      h \in BOOLEAN, n \in {-1, 4, 5, 7, 299, 300}, x \in {0, 1, 15} }

InitTimers ==
  /\ \E q \in TimerInputs :
       StartedWith([RoomsJson EXCEPT ![1].quiz = [loaded |-> TRUE, questions |-> << q >>]])
  /\ pts = NoPts /\ NoCalls

NextTimers == PlayIn(GamePins, GameKeys, MaxIds - 2, MaxStarts, GameNicks, FALSE)

SpecTimers == InitTimers /\ [][NextTimers]_vars

\* the lobby: every kind of message, valid or not, and no time passing
NextLobby ==
  \/ \E c \in Conns, p \in PinInputs, n \in NickInputs :
       /\ InUse(c)
       /\ (nextId < MaxIds - 1 \/ Trim(p) \notin loadAllowedPins(roomsFile))
       /\ Join(c, p, n)
  \/ \E c \in Conns, p \in PinInputs, key \in KeyInputs :
       /\ InUse(c)
       /\ (nextId < MaxIds - 1 \/ Trim(p) \notin loadAllowedPins(roomsFile)
             \/ loadRoomRecord(roomsFile, Trim(p)).hostKey # Trim(key))
       /\ HostJoin(c, p, key)
  \/ \E c \in Conns, p \in PinInputs :
       (hist.starts < MaxStarts \/ ~IsHost(c, Trim(p))) /\ HostStart(c, p)
  \/ \E c \in Conns, kind \in {"invalid_json", "unknown_type"} : Other(c, kind)
  \/ \E c \in Conns : Close(c)

SpecLobby == Init /\ [][NextLobby]_vars

\* the scoring engine alone, on inputs of every kind
ElapsedInputs == {0, 1, 3, 9, 2000, 4000, 5000, 9000, 10000, 300001}
DurationInputs == {1, 10, 5000, 10000, 300000}

InitPoints ==
  /\ Started /\ NoCalls
  /\ pts \in { [correct |-> b, elapsedMs |-> e, durationMs |-> d, result |-> 0, done |-> FALSE] :
                b \in BOOLEAN, e \in ElapsedInputs, d \in DurationInputs }

Score ==
  /\ ~pts.done
  /\ pts' = [pts EXCEPT !.result = computePoints(pts.correct, pts.elapsedMs, pts.durationMs),
                        !.done = TRUE]
  /\ UNCHANGED <<roomsFile, allowedPins, rooms, games, sockets, conn, timers, now,
                 nextId, sent, lastOp, hist, nick, editor, http>>

NextPoints == Score

SpecPoints == InitPoints /\ [][NextPoints]_vars

(***************************************************************************)
(* The claims.                                                             *)
(***************************************************************************)

\* C1, as stated: over any sequence of joins, answers, host_starts,
\* disconnects and timer firings the server sends at most one answer_result
\* for a (participant id, questionIndex) pair.
C1_OneResultEver == \A key \in DOMAIN hist.arEver : hist.arEver[key] <= 1

\* C1, amended: between two consecutive accepted host_starts of a PIN the
\* server sends at most one answer_result for a (participant id,
\* questionIndex) pair of that PIN.
C1_OneResultPerRun == \A key \in DOMAIN hist.arRun : hist.arRun[key] <= 1

\* a participant has been sent a result for the same question in two runs
C1_Witness ==
  \E key \in DOMAIN hist.arRun : hist.arRun[key] = 1 /\ hist.arEver[key] = 2

\* C2: a question-close or intermission-end callback armed for index k that
\* runs when the session's questionIndex is not k, or its state not running,
\* changes no field of the session, arms no timer and sends no message.
C2_StaleCallbackDoesNothing ==
  [][\A t \in BagToSet(timers) :
       (/\ t.kind \in {"close", "intermission"}
        /\ lastOp'.op = t.kind
        /\ Fire(t)
        /\ ~(/\ Has(games, t.pin)
              /\ games[t.pin].state = "running"
              /\ games[t.pin].questionIndex = t.questionIndex))
       => (/\ games' = games
           /\ rooms' = rooms
           /\ sent' = << >>
           /\ timers' = timers (-) SetToBag({t}))]_vars

\* a close callback has just run for an index the running session has left
C2_Witness ==
  /\ lastOp.op = "close" /\ ~lastOp.accepted
  /\ \E p \in DOMAIN games :
       games[p].state = "running" /\ games[p].questionIndex # lastOp.k

\* C3: whenever game_over is broadcast, the score its leaderboard shows for
\* a player is the sum of the deltas of the answer_results sent to that
\* player id since the last accepted host_start.
C3_GameOverScoresAreDeltaSums ==
  \A i \in 1..Len(sent) :
     sent[i].type = "game_over" =>
       \A j \in 1..Len(sent[i].leaderboard) :
          LET e == sent[i].leaderboard[j]
              key == <<sent[i].pin, e.id>>
          IN e.score = IF Has(hist.deltaSum, key) THEN hist.deltaSum[key] ELSE 0

\* game_over shows a positive score of a player who also scored in the run
\* before the last host_start
C3_Witness ==
  \E i \in 1..Len(sent) :
     /\ sent[i].type = "game_over"
     /\ \E j \in 1..Len(sent[i].leaderboard) :
          /\ sent[i].leaderboard[j].score > 0
          /\ \E k \in QuestionIndexInputs :
               LET key == <<sent[i].pin, sent[i].leaderboard[j].id, k>>
               IN Has(hist.arEver, key) /\ hist.arEver[key] = 2

Alex == <<"A", "l", "e", "x">>

\* C4: right after a successful join the new player's display name differs
\* from the name of every other participant of the room, and a join asking
\* for "Alex" while one participant is called "Alex" and none "Alex 2"
\* is named "Alex 2".
C4_JoinedNameIsUnique ==
  [][\A c \in Conns, p \in PinInputs, n \in NickInputs :
       (nextId' # nextId /\ lastOp'.op = "join" /\ Join(c, p, n))
       => LET pin == Trim(p)
              room == rooms'[pin]
              me == CHOOSE j \in 1..Len(room) : room[j].id = nextId'
          IN /\ \A j \in 1..Len(room) : j # me => room[j].nickname # room[me].nickname
             /\ (/\ Trim(n) = Alex
                 /\ NickTaken(listPlayers(rooms, pin), Alex)
                 /\ ~NickTaken(listPlayers(rooms, pin), Alex \o <<" ", "2">>))
                => room[me].nickname = Alex \o <<" ", "2">>]_vars

\* a player has just been welcomed as "Alex 2" beside an "Alex"
C4_Witness ==
  /\ lastOp.op = "join" /\ lastOp.accepted
  /\ \E i \in 1..Len(sent) :
       /\ sent[i].type = "welcome" /\ sent[i].nickname = Alex \o <<" ", "2">>
       /\ NickTaken(listPlayers(rooms, sent[i].pin), Alex)

\* what computePoints returns by the formula of C5
C5_Formula(correct, elapsedMs, durationMs) ==
  IF ~correct THEN 0
  ELSE 500 + ((500 * Max(0, durationMs - elapsedMs)) \div durationMs)

\* C5: computePoints returns 0 for an incorrect answer and otherwise
\* 500 + floor(500 * max(0, durationMs - elapsedMs) / durationMs), which is
\* in 500..1000, 1000 at elapsedMs = 0, 500 at elapsedMs >= durationMs and
\* 900 at elapsedMs = 2000, durationMs = 10000.
C5_PointsFollowFormula ==
  pts.done =>
    /\ pts.result = C5_Formula(pts.correct, pts.elapsedMs, pts.durationMs)
    /\ pts.correct =>
         /\ pts.result \in 500..1000
         /\ pts.elapsedMs = 0 => pts.result = 1000
         /\ pts.elapsedMs >= pts.durationMs => pts.result = 500
         /\ (pts.elapsedMs = 2000 /\ pts.durationMs = 10000) => pts.result = 900

\* C6: a host_start from a connection whose id is not the session's hostId,
\* or for a session without a quiz or with a quiz of zero questions, sends
\* exactly one error to the sender and nothing else, arms no timer and
\* leaves the session and the room unchanged.
C6_RejectedHostStart ==
  [][\A c \in Conns, p \in PinInputs :
       (/\ lastOp'.op = "host_start"
        /\ HostStart(c, p)
        /\ LET pin == Trim(p)
           IN \/ ~Has(games, pin)
              \/ conn[c].id = NoId
              \/ games[pin].hostId # conn[c].id
              \/ ~games[pin].quiz.loaded
              \/ Len(games[pin].quiz.questions) = 0)
       => (/\ Len(sent') = 1
           /\ sent'[1].type = "error"
           /\ sent'[1].to = c
           /\ timers' = timers
           /\ games' = games
           /\ rooms' = rooms)]_vars

\* a player of a room that has a host has just been told "Not host"
C6_Witness ==
  /\ lastOp.op = "host_start" /\ ~lastOp.accepted
  /\ Len(sent) = 1 /\ sent[1].message = "Not host"
  /\ LET c == sent[1].to
     IN /\ conn[c].id # NoId
        /\ Has(games, conn[c].pin)
        /\ games[conn[c].pin].hostId \notin {NoId, conn[c].id}

\* C7: after the connection of the host of a running session has closed,
\* and until a host_start is accepted, no answer_result is sent and no
\* question, question_over or game_over is broadcast for that PIN.
C7_NothingAfterHostLeft ==
  \A i \in 1..Len(sent) :
     (\/ sent[i].type \in {"answer_result", "question_over", "game_over"}
      \/ sent[i].type = "question" /\ lastOp.op \in {"prestart", "intermission"})
     => sent[i].pin \notin hist.hostLeft

\* C8: when the connection the registry holds for the session's hostId
\* closes while the session is running, hostId becomes unset, state waiting,
\* questionIndex -1, both timestamps unset, and host_left goes to every
\* participant left in the room with an open connection.
C8_HostCloseResets ==
  [][\A c \in Conns, p \in DOMAIN games :
       (lastOp'.op = "disconnect" /\ Close(c) /\ p \in HostedBy(c) /\ games[p].state = "running")
       => (/\ games'[p].hostId = NoId
           /\ games'[p].state = "waiting"
           /\ games'[p].questionIndex = -1
           /\ games'[p].questionStartedAt = NoTime
           /\ games'[p].questionEndsAt = NoTime
           /\ \A j \in 1..Len(listPlayers(rooms', p)) :
                LET id == listPlayers(rooms', p)[j].id
                IN (Has(sockets', id) /\ conn'[sockets'[id]].readyState = "OPEN")
                   => \E i \in 1..Len(sent') :
                        sent'[i].type = "host_left" /\ sent'[i].via = id)]_vars

\* C9: an answer is accepted only when the session is running, the
\* message's questionIndex is the session's, choiceIndex is in 0..3 and the
\* sender's id is not in the question's answered set; any other answer sends
\* no message and leaves every session unchanged.
C9_AnswerAcceptedOnlyWhenLive ==
  [][\A c \in Conns, p \in GamePins, k \in QuestionIndexInputs, ch \in ChoiceInputs :
       (/\ lastOp'.op = "answer"
        /\ Answer(c, p, k, ch)
        /\ LET pin == Trim(p)
           IN ~(/\ Has(games, pin)
                /\ games[pin].state = "running"
                /\ games[pin].questionIndex = k
                /\ ch \in 0..3
                /\ ~(/\ Has(games[pin].answeredByQuestion, k)
                     /\ conn[c].id \in games[pin].answeredByQuestion[k])))
       => (sent' = << >> /\ games' = games)]_vars

\* an answer has just been dropped while a question is live that a connected
\* participant has already answered
C9_Witness ==
  /\ lastOp.op = "answer" /\ ~lastOp.accepted /\ sent = << >>
  /\ \E p \in DOMAIN games, c \in Conns :
       /\ games[p].state = "running" /\ games[p].questionIndex >= 0
       /\ Open(c) /\ conn[c].pin = p
       /\ conn[c].id \in games[p].answeredByQuestion[games[p].questionIndex]

\* C10: every answer_result goes to the connection whose answer the server
\* has just accepted, and to no other connection.
C10_ResultOnlyToSender ==
  [][\A i \in 1..Len(sent') :
       sent'[i].type = "answer_result"
       => \E p \in GamePins, k \in QuestionIndexInputs, ch \in ChoiceInputs :
            Answer(sent'[i].to, p, k, ch)]_vars

\* an answer_result has just been sent while another participant of the room
\* is connected through another connection
C10_Witness ==
  /\ lastOp.op = "answer" /\ lastOp.accepted
  /\ \E i \in 1..Len(sent), c \in Conns :
       /\ sent[i].type = "answer_result"
       /\ c # sent[i].to /\ Open(c) /\ conn[c].id # NoId /\ conn[c].pin = sent[i].pin

\* the PINs of the rooms file, as a client has to spell them
C11_AllowList == {PinA, PinB, PinC}

\* a message handler of connection c runs
C11_HandlerOf(c) ==
  \/ \E p \in PinInputs, n \in NickInputs : Join(c, p, n)
  \/ \E p \in PinInputs, key \in KeyInputs : HostJoin(c, p, key)
  \/ \E p \in PinInputs : HostStart(c, p)
  \/ \E kind \in {"invalid_json", "unknown_type"} : Other(c, kind)

C11_OneErrorTo(c) ==
  /\ Len(sent') = 1 /\ sent'[1].type = "error" /\ sent'[1].to = c
  /\ UNCHANGED <<rooms, sockets, games, conn>>

\* C11: every error is written only to the connection whose message was
\* rejected; a join whose PIN is not in the allow-list, a body that is not
\* JSON and a message of unknown type each produce exactly one error to the
\* sender and leave rooms, sockets and games unchanged
C11_ErrorOnlyToSender ==
  [][/\ \A i \in 1..Len(sent') :
          sent'[i].type = "error" => Len(sent') = 1 /\ C11_HandlerOf(sent'[i].to)
     /\ \A c \in Conns :
          /\ \A p \in PinInputs, n \in NickInputs :
               Trim(p) \notin C11_AllowList /\ Join(c, p, n) => C11_OneErrorTo(c)
          /\ \A kind \in {"invalid_json", "unknown_type"} :
               Other(c, kind) => C11_OneErrorTo(c)]_vars

\* a join has just been rejected while a participant connected through
\* another connection is in a room
C11_Witness ==
  /\ lastOp.op = "join" /\ ~lastOp.accepted
  /\ Len(sent) = 1 /\ sent[1].type = "error"
  /\ \E c \in Conns :
       /\ c # sent[1].to /\ Open(c) /\ conn[c].id # NoId
       /\ Has(rooms, conn[c].pin)

\* the host key stored with each PIN of the rooms file
C12_StoredKey(pin) == IF pin = PinA THEN KeyA ELSE KeyB

\* C12: a host_join with an empty PIN, an empty key, a PIN that is not
\* allowed or a key that differs from the stored hostKey is answered with one
\* error to the sender only and leaves hostId, quiz, the participants of the
\* rooms and the registry of sockets unchanged
C12_RejectedHostJoin ==
  [][\A c \in Conns, p \in PinInputs, key \in KeyInputs :
       /\ lastOp'.op = "host_join"
       /\ HostJoin(c, p, key)
       /\ \/ Trim(p) = << >> \/ Trim(key) = << >>
          \/ Trim(p) \notin C11_AllowList
          \/ C12_StoredKey(Trim(p)) # Trim(key)
       => /\ Len(sent') = 1 /\ sent'[1].type = "error" /\ sent'[1].to = c
          /\ UNCHANGED <<games, rooms, sockets, conn>>]_vars

\* a host_join with a wrong key has just been rejected for a room that has
\* a registered host
C12_Witness ==
  /\ lastOp.op = "host_join" /\ ~lastOp.accepted
  /\ Len(sent) = 1 /\ sent[1].type = "error" /\ sent[1].code = "HOST_KEY_INVALID"
  /\ \E p \in DOMAIN games : games[p].hostId # NoId /\ Has(rooms, p)

\* the join of connection c to the room of PIN p has just been accepted
C13_Joined(c, p) ==
  /\ lastOp'.op = "join" /\ lastOp'.accepted
  /\ \E n \in GameNicks : Join(c, p, n)

\* message i of sent' is the current question of the room of PIN p, for c
C13_IsCatchUp(i, c, p) ==
  /\ sent'[i].type = "question" /\ sent'[i].to = c
  /\ sent'[i].questionIndex = games'[Trim(p)].questionIndex
  /\ sent'[i].endsAt = games'[Trim(p)].questionEndsAt

\* C13 as stated: whenever a player joins a room whose session is running, the
\* joiner is sent, after its welcome, a question carrying the current
\* questionIndex and its end timestamp
C13_QuestionWheneverRunning ==
  [][\A c \in Conns, p \in GamePins :
       C13_Joined(c, p) /\ games'[Trim(p)].state = "running"
       => \E i, j \in 1..Len(sent') :
            /\ i < j
            /\ sent'[i].type = "welcome" /\ sent'[i].to = c
            /\ C13_IsCatchUp(j, c, p)]_vars

\* C13 amended: the joiner is sent the current question exactly when the
\* session is running and a question has been started (questionEndsAt is
\* set); the welcome comes first, the room_update of the room follows, and the
\* question, with the current questionIndex and questionEndsAt, comes last
C13_QuestionWhenQuestionStarted ==
  [][\A c \in Conns, p \in GamePins :
       C13_Joined(c, p)
       => LET game == games'[Trim(p)]
              n == Len(sent')
          IN /\ sent'[1].type = "welcome" /\ sent'[1].to = c
             /\ IF game.state = "running" /\ game.questionEndsAt # NoTime
                THEN /\ n >= 3
                     /\ C13_IsCatchUp(n, c, p)
                     /\ \A i \in 2..(n - 1) : sent'[i].type = "room_update"
                ELSE \A i \in 2..n : sent'[i].type = "room_update"]_vars

\* a player has just joined a room whose session is running a question and
\* has been sent that question
C13_Witness ==
  /\ lastOp.op = "join" /\ lastOp.accepted
  /\ \E p \in DOMAIN games :
       /\ games[p].state = "running" /\ games[p].questionIndex >= 0
       /\ sent[Len(sent)].type = "question"
       /\ sent[Len(sent)].pin = p
       /\ sent[Len(sent)].endsAt = games[p].questionEndsAt

\* the participants of the room of PIN p that entered it through join
C14_Players(p) == SelectSeq(listPlayers(rooms, p), LAMBDA e : e.id \in hist.joined)

C14_Place(ps, id) == CHOOSE i \in 1..Len(ps) : ps[i].id = id

\* C14: every leaderboard of a question_over or game_over lists exactly the
\* non-host participants in the room, each with its ledger score (0 without
\* an entry), in non-increasing score order, ties in join order, and top3 is
\* its first three entries
C14_LeaderboardListsPlayers ==
  \A i \in 1..Len(sent) :
    sent[i].type \in {"question_over", "game_over"}
    => LET lb == sent[i].leaderboard
           ps == C14_Players(sent[i].pin)
           game == games[sent[i].pin]
       IN /\ Len(lb) = Len(ps)
          /\ { lb[j].id : j \in 1..Len(lb) } = { ps[j].id : j \in 1..Len(ps) }
          /\ \A j \in 1..Len(lb) : lb[j].score = ScoreOf(game, lb[j].id)
          /\ \A j, k \in 1..Len(lb) :
               j < k => /\ lb[j].score >= lb[k].score
                        /\ lb[j].score = lb[k].score
                           => C14_Place(ps, lb[j].id) < C14_Place(ps, lb[k].id)
          /\ sent[i].top3 = SubSeq(lb, 1, Min(3, Len(lb)))

C16_HostConnected(p) ==
  /\ Has(games, p) /\ games[p].hostId # NoId
  /\ Has(sockets, games[p].hostId) /\ Open(sockets[games[p].hostId])

\* the n-th host_start has just been accepted
C16_Started(n) == lastOp.op = "host_start" /\ lastOp.accepted /\ hist.starts = n

\* game_over has just been broadcast and the session is ended
C16_GameOver ==
  /\ Has(games, PinA) /\ games[PinA].state = "ended"
  /\ \E i \in 1..Len(sent) : sent[i].type = "game_over" /\ sent[i].pin = PinA

\* the armed timers are all due after the end of the observed time
C16_TimeUp == timers # EmptyBag /\ \A due \in Dues : due > MaxNow

\* C16: after an accepted host_start, if the host stays connected and no
\* further host_start is accepted, and every armed timer eventually fires,
\* game_over is eventually broadcast and the session is ended
C16_GameOverFollows ==
  \A n \in 1..(MaxStarts + 1) :
    C16_Started(n)
    ~> (C16_GameOver \/ ~C16_HostConnected(PinA) \/ hist.starts > n \/ C16_TimeUp)

\* game_over has just been broadcast to the host, who stayed connected
C16_Witness ==
  /\ C16_GameOver /\ C16_HostConnected(PinA) /\ hist.starts = 1
  /\ lastOp.op = "intermission" /\ lastOp.accepted

\* the participant with this id is connected
C17_Connected(id) == Has(sockets, id) /\ Open(sockets[id])

\* no room of the directory is empty, a room is there while a participant of
\* it is connected and only then
C17_RoomsLive ==
  /\ \A p \in DOMAIN rooms :
       /\ Len(rooms[p]) > 0
       /\ \E i \in 1..Len(rooms[p]) : C17_Connected(rooms[p][i].id)
  /\ \A c \in Conns : Open(c) /\ conn[c].id # NoId => Has(rooms, conn[c].pin)

\* no session is removed, and a disconnection leaves the state of every
\* session as it is but for the reset of a running session that loses its host
C17_SessionsKept ==
  \A p \in DOMAIN games :
    /\ Has(games', p)
    /\ lastOp'.op = "disconnect"
       => \/ games'[p].state = games[p].state
          \/ /\ games[p].state = "running" /\ games'[p].state = "waiting"
             /\ games[p].hostId # NoId /\ games'[p].hostId = NoId

\* C17: the room directory never holds an empty room: a room exists exactly
\* from the first join or host_join until its last participant disconnects;
\* a session is never removed and keeps its state when the last participant
\* leaves (but for the host-left reset)
C17_RoomWhileParticipants == [][C17_RoomsLive' /\ C17_SessionsKept]_vars

\* the participants of the room of PIN p that entered it through host_join
C18_Hosts(p) == { i \in 1..Len(rooms[p]) : rooms[p][i].id \notin hist.joined }

\* C18: a room holds at most one participant with the host role, and the id
\* of that participant is the hostId of the session; a host_join never leaves
\* two host participants in a room
C18_OneHostPerRoom ==
  \A p \in DOMAIN rooms :
    /\ Cardinality(C18_Hosts(p)) <= 1
    /\ \A i \in C18_Hosts(p) : rooms[p][i].id = games[p].hostId

\* C19: participant ids are never reused: the id allocated by an accepted
\* join or host_join differs from every id allocated earlier (these are among
\* 1..nextId), so it overwrites no room entry, no channel and no score of an
\* existing participant
C19_IdsNeverReused ==
  [][lastOp'.op \in {"join", "host_join"} /\ lastOp'.accepted
     => LET id == sent'[1].id
        IN /\ id \notin 1..nextId
           /\ ~Has(sockets, id)
           /\ \A p \in DOMAIN rooms : \A i \in 1..Len(rooms[p]) : rooms[p][i].id # id
           /\ \A p \in DOMAIN games : ~Has(games[p].scores, id)]_vars

\* C20: an accepted host_start, from any state, sets state to running and
\* questionIndex to -1, clears both question timestamps, empties the answered
\* sets, replaces the score ledger with exactly one zero entry per non-host
\* participant in the room, and broadcasts starting to the room
C20_HostStartResets ==
  [][\A c \in Conns, p \in GamePins :
       lastOp'.op = "host_start" /\ lastOp'.accepted /\ HostStart(c, p)
       => LET pin == Trim(p)
              game == games'[pin]
              ps == C14_Players(pin)
          IN /\ game.state = "running" /\ game.questionIndex = -1
             /\ game.questionStartedAt = NoTime /\ game.questionEndsAt = NoTime
             /\ game.answeredByQuestion = EmptyMap
             /\ DOMAIN game.scores = { ps[i].id : i \in 1..Len(ps) }
             /\ \A id \in DOMAIN game.scores : game.scores[id] = 0
             /\ \A i \in 1..Len(sent') : sent'[i].type = "starting" /\ sent'[i].pin = pin
             /\ \A i \in 1..Len(rooms[pin]) :
                  C17_Connected(rooms[pin][i].id)
                  => \E j \in 1..Len(sent') : sent'[j].via = rooms[pin][i].id]_vars

\* timer t was armed before the last reset of its session
C21_Stale(t) == t.run < RunOf(t.pin)

\* C21: a question-close or intermission-end timer armed before an accepted
\* host_start or a host-left reset never takes effect afterwards: it sends
\* nothing and starts or closes no question of the new run, even at the
\* question index it was armed for
C21_StaleTimerNeverActs ==
  [][\A t \in BagToSet(timers) :
       /\ t.kind \in {"close", "intermission"}
       /\ lastOp'.op = t.kind
       /\ C21_Stale(t)
       /\ Fire(t)
       => /\ sent' = << >>
          /\ games' = games
          /\ timers' = timers (-) SetToBag({t})]_vars

\* C22: the pre-start timer of a host_start acts only for that start: when
\* another host_start has been accepted (or the host has left) before it
\* fires, it does nothing; game_started and the first question are sent once
\* per run, and only by the timer of the most recent accepted host_start
C22_PreStartOnlyForItsStart ==
  [][\A t \in BagToSet(timers) :
       /\ t.kind = "prestart"
       /\ lastOp'.op = "prestart"
       /\ Fire(t)
       => IF C21_Stale(t)
          THEN /\ sent' = << >>
               /\ games' = games
               /\ timers' = timers (-) SetToBag({t})
          ELSE lastOp'.accepted
               => /\ games[t.pin].questionIndex = -1
                  /\ games'[t.pin].questionIndex = 0]_vars

\* the question_overs sent for the current question of the session of pin
C23_Overs(pin) == IF Has(hist.overs, pin) THEN hist.overs[pin] ELSE 0

\* C23: within a run, between the broadcast of question k and the broadcast
\* of question k+1 (or of game_over after the last question) exactly one
\* question_over for k is broadcast: no question is superseded without being
\* closed, and none is closed twice
C23_OneQuestionOverPerQuestion ==
  [][\A t \in BagToSet(timers) :
       /\ lastOp'.op = t.kind /\ lastOp'.accepted
       /\ Fire(t)
       => /\ t.kind = "close"
             => /\ C23_Overs(t.pin) = 0
                /\ t.questionIndex = games[t.pin].questionIndex
          /\ t.kind = "intermission" => C23_Overs(t.pin) = 1]_vars

\* message i of sent' is of this type and for the room of PIN p
C24_Sent(i, type, p) == sent'[i].type = type /\ sent'[i].pin = p

\* C24: within a run, question events are broadcast for the indices 0, 1,
\* 2, ... in increasing order, none skipped or repeated; game_over is
\* broadcast at most once, only after the question of the last index, and the
\* session is ended at that moment
C24_QuestionsInOrder ==
  [][\A p \in DOMAIN games :
       LET g == games[p]
           h == games'[p]
           timer == lastOp'.op \in {"prestart", "intermission"} /\ lastOp'.accepted
           reset == \/ lastOp'.op = "host_start" /\ lastOp'.accepted
                    \/ lastOp'.op = "disconnect" /\ g.state = "running" /\ h.state = "waiting"
       IN /\ h.questionIndex # g.questionIndex
             => \/ reset /\ h.questionIndex = -1
                \/ /\ timer /\ h.questionIndex = g.questionIndex + 1
                   /\ \A i \in 1..Len(rooms[p]) :
                        C17_Connected(rooms[p][i].id)
                        => \E j \in 1..Len(sent') :
                             /\ C24_Sent(j, "question", p)
                             /\ sent'[j].via = rooms[p][i].id
          /\ \A i \in 1..Len(sent') :
               /\ lastOp'.op # "join" /\ C24_Sent(i, "question", p)
                  => /\ timer /\ h.state = "running"
                     /\ sent'[i].questionIndex = g.questionIndex + 1
                     /\ sent'[i].questionIndex = h.questionIndex
               /\ C24_Sent(i, "game_over", p)
                  => /\ timer /\ g.state = "running" /\ h.state = "ended"
                     /\ g.questionIndex = Len(Questions(g)) - 1
                     /\ h.questionIndex = g.questionIndex]_vars

\* game_over has just been broadcast after the last question
C24_Witness ==
  /\ lastOp.op = "intermission" /\ lastOp.accepted
  /\ \E i \in 1..Len(sent) :
       /\ sent[i].type = "game_over"
       /\ games[sent[i].pin].state = "ended"
       /\ games[sent[i].pin].questionIndex = Len(Questions(games[sent[i].pin])) - 1
       /\ games[sent[i].pin].questionIndex >= 1

\* C25: once question_over for question k has been broadcast, no answer for
\* k is accepted: during the intermission, until question k+1 goes live, no
\* answer_result is sent and no score changes
C25_NoAnswerAfterQuestionOver ==
  [][\A p \in DOMAIN games :
       /\ games[p].state = "running"
       /\ C23_Overs(p) >= 1
       /\ lastOp'.op = "answer"
       => /\ ~lastOp'.accepted
          /\ \A i \in 1..Len(sent') : sent'[i].type # "answer_result"
          /\ games'[p].scores = games[p].scores]_vars

\* C26: every non-host participant in a room has an entry in the score
\* ledger of the room's session (made on join, made again by host_start,
\* removed only when the participant disconnects)
C26_PlayersHaveLedgerEntry ==
  \A p \in DOMAIN rooms :
    \A i \in 1..Len(C14_Players(p)) :
      Has(games, p) /\ Has(games[p].scores, C14_Players(p)[i].id)

\* the ids a roster or a leaderboard lists
C27_Ids(list) == { list[i].id : i \in 1..Len(list) }

\* the players admitted to the room of PIN p by join that are connected
C27_ConnectedPlayers(p) ==
  { id \in C27_Ids(C14_Players(p)) : C17_Connected(id) }

\* C27: every player admitted by a join, whatever nickname it asked for, is
\* listed in the roster of its own welcome and of every later room_update,
\* and in every leaderboard, for as long as it stays connected
C27_PlayersAreListed ==
  \A i \in 1..Len(sent) :
    /\ sent[i].type \in {"welcome", "room_update"}
       => C27_ConnectedPlayers(sent[i].pin) \subseteq C27_Ids(sent[i].players)
    /\ sent[i].type \in {"question_over", "game_over"}
       => C27_ConnectedPlayers(sent[i].pin) \subseteq C27_Ids(sent[i].leaderboard)

\* C28: after a connection has closed, no participant id that was allocated
\* to it remains in the room directory, the connection registry, the score
\* ledger or as hostId: each id found there is registered to a connection
\* that is open
C28_NoIdOfClosedConnection ==
  /\ \A id \in DOMAIN sockets : Open(sockets[id])
  /\ \A p \in DOMAIN rooms : \A i \in 1..Len(rooms[p]) : C17_Connected(rooms[p][i].id)
  /\ \A p \in DOMAIN games :
       /\ \A id \in DOMAIN games[p].scores : C17_Connected(id)
       /\ games[p].hostId # NoId => C17_Connected(games[p].hostId)

\* C29: in a session whose quiz has N questions questionIndex is in
\* -1..N-1; waiting implies questionIndex -1 and both timestamps unset;
\* running at -1 implies both unset; running at an index from 0 implies both
\* set with questionEndsAt > questionStartedAt
C29_SessionShape ==
  \A p \in DOMAIN games :
    LET g == games[p]
        unset == g.questionStartedAt = NoTime /\ g.questionEndsAt = NoTime
    IN /\ g.questionIndex \in -1..(Len(Questions(g)) - 1)
       /\ g.state = "waiting" => g.questionIndex = -1 /\ unset
       /\ g.state = "running" /\ g.questionIndex = -1 => unset
       /\ g.state = "running" /\ g.questionIndex >= 0
          => /\ g.questionStartedAt # NoTime /\ g.questionEndsAt # NoTime
             /\ g.questionEndsAt > g.questionStartedAt

\* every score is a natural number, and at most 1000 per question started
\* while the session is running or ended
C30_ScoresBounded ==
  \A p \in DOMAIN games : \A id \in DOMAIN games[p].scores :
    /\ games[p].scores[id] \in Nat
    /\ games[p].state \in {"running", "ended"}
       => games[p].scores[id] <= (BASE_POINTS + BONUS_POINTS) * (games[p].questionIndex + 1)

\* C30: every ledger score is a non-negative integer and, while the session
\* is running or ended at questionIndex i, at most 1000 * (i + 1); a score
\* never decreases but by an accepted host_start or the removal of its
\* entry on disconnect
C30_ScoresGrowWithinBound ==
  [][/\ C30_ScoresBounded'
     /\ \A p \in DOMAIN games : \A id \in DOMAIN games[p].scores :
          Has(games'[p].scores, id) /\ games'[p].scores[id] < games[p].scores[id]
          => lastOp'.op = "host_start" /\ lastOp'.accepted]_vars

\* an answer has just given a player the highest score possible at the
\* first question
C30_Witness ==
  \E p \in DOMAIN games : \E id \in DOMAIN games[p].scores :
    /\ lastOp.op = "answer" /\ lastOp.accepted
    /\ games[p].state = "running" /\ games[p].questionIndex = 0
    /\ games[p].scores[id] = (BASE_POINTS + BONUS_POINTS) * (games[p].questionIndex + 1)

\* C31: a join, an answer and the close of a connection that is not the
\* registered host leave state, questionIndex, the question timestamps,
\* hostId and quiz of every session as they were; those fields change only by
\* an accepted host_start, a timer callback that passes its guard, an accepted
\* host_join (hostId and quiz only) or the close of the registered host's
\* connection.
C31_Core(g) ==
  <<g.state, g.questionIndex, g.questionStartedAt, g.questionEndsAt>>

C31_Framed(g) == <<C31_Core(g), g.hostId, g.quiz>>

C31_HostCloses(p) ==
  \E c \in Conns :
    /\ conn[c].readyState = "OPEN" /\ conn'[c].readyState = "CLOSED"
    /\ conn[c].pin = p /\ conn[c].id # NoId /\ conn[c].id = games[p].hostId

C31_SessionFrame ==
  [][\A p \in DOMAIN games :
       /\ p \in DOMAIN games'
       /\ C31_Framed(games'[p]) # C31_Framed(games[p]) =>
            \/ lastOp'.op = "host_start" /\ lastOp'.accepted
            \/ lastOp'.op \in {"prestart", "close", "intermission"} /\ lastOp'.accepted
            \/ /\ lastOp'.op = "host_join" /\ lastOp'.accepted
               /\ C31_Core(games'[p]) = C31_Core(games[p])
            \/ lastOp'.op = "disconnect" /\ C31_HostCloses(p)]_vars

\* a player's connection has closed while the host's question is live
C31_Witness ==
  /\ lastOp.op = "disconnect" /\ lastOp.accepted
  /\ \E p \in DOMAIN games :
       /\ games[p].state = "running" /\ games[p].questionIndex >= 0
       /\ games[p].hostId # NoId /\ Has(sockets, games[p].hostId)
       /\ \E c \in Conns : conn[c].readyState = "CLOSED" /\ conn[c].pin = p

\* the quiz stored in the rooms file with the pin of the game
C32_StoredQuiz(p) ==
  LET i == CHOOSE j \in 1..Len(roomsFile) : Trim(roomsFile[j].pin) = p
  IN roomsFile[i].quiz

\* the session of pin p before the step, or the one getOrCreateGame makes
C32_Before(p) ==
  IF p \in DOMAIN games THEN games[p]
  ELSE [hostId |-> NoId, state |-> "waiting", quiz |-> NoQuiz, questionIndex |-> -1,
        questionStartedAt |-> NoTime, questionEndsAt |-> NoTime,
        answeredByQuestion |-> << >>, scores |-> << >>]

\* C32: the quiz of a session changes only by an accepted host_join; an
\* accepted host_join makes a newly allocated id the hostId, loads the quiz
\* stored in the rooms file, answers the sender with a host_welcome that
\* carries the state and the questionIndex of the session, and leaves state,
\* questionIndex, the timestamps, the scores and the answered sets unchanged.
C32_QuizOnlyByHostJoin ==
  [][/\ \A p \in DOMAIN games :
          games'[p].quiz # games[p].quiz => lastOp'.op = "host_join" /\ lastOp'.accepted
     /\ (lastOp'.op = "host_join" /\ lastOp'.accepted) =>
          \E c \in Conns, p \in GamePins, key \in GameKeys :
            /\ HostJoin(c, p, key)
            /\ LET pin == Trim(p)
                   w == sent'[1]
                   g == games'[pin]
                   b == C32_Before(pin)
               IN /\ w.type = "host_welcome" /\ w.to = c /\ w.pin = pin
                  /\ w.id \notin DOMAIN sockets /\ w.id # conn[c].id /\ w.id # NoId
                  /\ conn'[c].id = w.id
                  /\ g.hostId = w.id
                  /\ g.quiz = C32_StoredQuiz(pin)
                  /\ w.state = b.state /\ w.questionIndex = b.questionIndex
                  /\ g.state = b.state /\ g.questionIndex = b.questionIndex
                  /\ g.questionStartedAt = b.questionStartedAt
                  /\ g.questionEndsAt = b.questionEndsAt
                  /\ g.scores = b.scores
                  /\ g.answeredByQuestion = b.answeredByQuestion]_vars

\* a host_join has just replaced the quiz of a running session that has a
\* score in its ledger
C32_Witness ==
  /\ lastOp.op = "host_join" /\ lastOp.accepted
  /\ roomsFile # RoomsJson
  /\ \E p \in DOMAIN games :
       /\ games[p].quiz = QuizEdited /\ games[p].state = "running"
       /\ games[p].questionIndex >= 0
       /\ \E id \in DOMAIN games[p].scores : games[p].scores[id] > 0

\* the PINs of the two rooms
C33_Pins == { Trim(p) : p \in RoomPins }

\* the step handles a message, a close or a timer callback that concerns PIN P
C33_Concerns(P) ==
  \/ /\ lastOp'.op = "join"
     /\ \E c \in Conns, p \in RoomPins, n \in GameNicks : Trim(p) = P /\ Join(c, p, n)
  \/ /\ lastOp'.op = "host_join"
     /\ \E c \in Conns, p \in RoomPins, key \in RoomKeys : Trim(p) = P /\ HostJoin(c, p, key)
  \/ /\ lastOp'.op = "host_start"
     /\ \E c \in Conns, p \in RoomPins : Trim(p) = P /\ HostStart(c, p)
  \/ /\ lastOp'.op = "answer"
     /\ \E c \in Conns, p \in RoomPins, k \in QuestionIndexInputs, ch \in ChoiceInputs :
          Trim(p) = P /\ Answer(c, p, k, ch)
  \/ /\ lastOp'.op = "disconnect"
     /\ \E c \in Conns : conn[c].pin = P /\ Close(c)
  \/ /\ lastOp'.op \in {"prestart", "close", "intermission"}
     /\ \E t \in BagToSet(timers) : t.pin = P /\ Fire(t)

C33_Entry(m, Q) == IF Q \in DOMAIN m THEN << m[Q] >> ELSE << >>

C33_OthersUnchanged(P) ==
  \A Q \in C33_Pins \ {P} :
    /\ C33_Entry(rooms', Q) = C33_Entry(rooms, Q)
    /\ C33_Entry(games', Q) = C33_Entry(games, Q)

\* connection c carries a participant of the room of PIN Q
C33_In(rs, sk, c, Q) ==
  /\ Q \in DOMAIN rs
  /\ \E i \in 1..Len(rs[Q]) : rs[Q][i].id \in DOMAIN sk /\ sk[rs[Q][i].id] = c

\* connection c carries participants of other rooms and none of P's room
C33_OnlyElsewhere(c, P) ==
  /\ \E Q \in C33_Pins \ {P} : C33_In(rooms, sockets, c, Q) \/ C33_In(rooms', sockets', c, Q)
  /\ ~C33_In(rooms, sockets, c, P)
  /\ ~C33_In(rooms', sockets', c, P)

\* C33 as stated: a step that concerns PIN P leaves the room and the session
\* of every other PIN unchanged and sends no message at all to a participant
\* registered only in another PIN's room
C33_NothingAcrossRooms ==
  [][\A P \in C33_Pins :
       C33_Concerns(P) =>
         /\ C33_OthersUnchanged(P)
         /\ \A i \in 1..Len(sent') : ~C33_OnlyElsewhere(sent'[i].to, P)]_vars

\* C33 amended: a step that concerns PIN P leaves the room and the session
\* of every other PIN unchanged and sends no message other than an error
\* reply to a participant registered only in another PIN's room
C33_OnlyErrorsAcrossRooms ==
  [][\A P \in C33_Pins :
       C33_Concerns(P) =>
         /\ C33_OthersUnchanged(P)
         /\ \A i \in 1..Len(sent') :
              sent'[i].type # "error" => ~C33_OnlyElsewhere(sent'[i].to, P)]_vars

\* a question has just gone live in one room while the other room has a
\* participant with an open connection who is in no way in the first
C33_Witness ==
  /\ lastOp.op = "prestart" /\ lastOp.accepted
  /\ Len(sent) > 0
  /\ \E Q \in DOMAIN rooms \ {sent[1].pin} :
       \E c \in Conns :
         /\ conn[c].readyState = "OPEN"
         /\ C33_In(rooms, sockets, c, Q)
         /\ ~C33_In(rooms, sockets, c, sent[1].pin)
         /\ Q \in DOMAIN games

\* round(timerSeconds * 1000) clamped to 5000..300000 is d, timerSeconds
\* being 10 for a question whose timerSeconds is not a number
C34_IsClampedRounded(q, d) ==
  LET halves == IF q.hasTimer THEN 2000 * q.timerSeconds + 125 * q.timerSixteenths
                ELSE 20000
  IN \/ d = 5000 /\ halves <= 10000
     \/ d = 300000 /\ halves >= 599999
     \/ d \in 5000..300000 /\ 2 * d - halves \in {0, 1}

\* C34: when a question goes live, questionEndsAt - questionStartedAt is
\* round(timerSeconds * 1000) clamped to 5000..300000 ms (timerSeconds taken
\* as 10 when it is not a number), every question event sent carries
\* questionEndsAt as endsAt, and a close timer for that question is armed
\* that is due strictly after questionEndsAt.
C34_DurationClamped ==
  [][\A p \in DOMAIN games' :
       (/\ lastOp'.op \in {"prestart", "intermission"} /\ lastOp'.accepted
        /\ games'[p].state = "running"
        /\ games'[p].questionIndex >= 0
        /\ games'[p].questionIndex # games[p].questionIndex)
       => LET g == games'[p]
              q == g.quiz.questions[g.questionIndex + 1]
          IN /\ g.questionStartedAt = now
             /\ C34_IsClampedRounded(q, g.questionEndsAt - g.questionStartedAt)
             /\ \A i \in 1..Len(sent') :
                  sent'[i].type = "question" => sent'[i].endsAt = g.questionEndsAt
             /\ \E t \in BagToSet(timers') :
                  /\ t.kind = "close" /\ t.pin = p /\ t.questionIndex = g.questionIndex
                  /\ t.due > g.questionEndsAt
                  /\ CopiesIn(t, timers') = CopiesIn(t, timers) + 1]_vars

\* a question whose timer of 5.0625 s was rounded up to 5063 ms is live
C34_Witness ==
  /\ lastOp.op = "prestart" /\ lastOp.accepted
  /\ \E p \in DOMAIN games :
       /\ games[p].state = "running" /\ games[p].questionIndex = 0
       /\ games[p].questionEndsAt - games[p].questionStartedAt = 5063
       /\ \E i \in 1..Len(sent) : sent[i].type = "question" /\ sent[i].endsAt = now + 5063

(***************************************************************************)
(* uniqueNickname alone, on rooms and requests of every kind.              *)
(***************************************************************************)
Numbered(base, i) == base \o <<" ">> \o Digits(i)

LongNick == [i \in 1..26 |-> "a"]

\* a name with a space where the name is cut
LongSpaced == [i \in 1..26 |-> IF i = 24 THEN " " ELSE "b"]

\* a room in which "Alex" has joined 998 times: the names Alex, Alex 2, ...,
\* Alex 998
FullNames == <<Alex>> \o [i \in 1..(PROBE_END - 2) |-> Numbered(Alex, i + 1)]

NameLists ==
  { << >>, <<Alex>>, <<Alex, Numbered(Alex, 2)>>, <<Alex, Numbered(Alex, 3)>>,
    <<Numbered(Alex, 2)>>, <<PLAYER_NICK>>, <<Slice(LongNick, NICK_MAX), Alex>>, FullNames }

DesiredInputs ==
  { Alex, <<" ">> \o Alex \o <<" ">>, << >>, <<" ", " ">>, LongNick, LongSpaced }

TimeInputs == {5, 1999, 12000}

NickRoom(names) == [i \in 1..Len(names) |-> [id |-> i, nickname |-> names[i]]]

InitNick ==
  /\ Started /\ pts = NoPts /\ editor = NoEditor /\ http = NoHttp
  /\ nick \in { [players |-> NickRoom(ns), desired |-> d, t |-> t, result |-> << >>,
                  done |-> FALSE] :
                 ns \in NameLists, d \in DesiredInputs, t \in TimeInputs }

Resolve ==
  /\ ~nick.done
  /\ nick' = [nick EXCEPT
                !.result = uniqueNickname(Put(EmptyMap, PinA, nick.players), PinA,
                                          nick.desired, nick.t),
                !.done = TRUE]
  /\ UNCHANGED <<ServerVars, pts, editor, http>>

NextNick == Resolve

SpecNick == InitNick /\ [][NextNick]_vars

\* the requested name without the spaces around it, cut to 24 characters,
\* or "Player" when nothing is left
C35_Base(d) ==
  LET inked == { i \in 1..Len(d) : d[i] # " " }
  IN IF inked = {} THEN <<"P", "l", "a", "y", "e", "r">>
     ELSE LET a == CHOOSE i \in inked : \A j \in inked : i <= j
              b == CHOOSE i \in inked : \A j \in inked : i >= j
              n == IF b - a + 1 > 24 THEN 24 ELSE b - a + 1
          IN [i \in 1..n |-> d[a + i - 1]]

C35_Names == { nick.players[i].nickname : i \in 1..Len(nick.players) }

\* i is the smallest integer of 2..998 whose name no participant has
C35_SmallestFree(base, i) ==
  /\ Numbered(base, i) \notin C35_Names
  /\ \A j \in 2..(i - 1) : Numbered(base, j) \in C35_Names

\* C35 as stated: the result is the base when no participant has it, and
\* otherwise the base, a space and the smallest i of 2..998 whose name no
\* participant has
C35_BaseOrSmallestSuffix ==
  nick.done =>
    LET base == C35_Base(nick.desired)
    IN IF base \notin C35_Names THEN nick.result = base
       ELSE \E i \in 2..998 : C35_SmallestFree(base, i) /\ nick.result = Numbered(base, i)

\* C35 amended: the same and, when every name from "base 2" to "base 998"
\* is taken, the base, a space and the time in milliseconds modulo 1000
C35_BaseSuffixOrTime ==
  nick.done =>
    LET base == C35_Base(nick.desired)
    IN IF base \notin C35_Names THEN nick.result = base
       ELSE IF \E i \in 2..998 : Numbered(base, i) \notin C35_Names
       THEN \E i \in 2..998 : C35_SmallestFree(base, i) /\ nick.result = Numbered(base, i)
       ELSE nick.result = Numbered(base, nick.t % 1000)

\* "Alex" was asked for in a room with Alex and Alex 3, and Alex 2 returned
C35_Witness ==
  /\ nick.done
  /\ C35_Names = {Alex, Numbered(Alex, 3)}
  /\ C35_Base(nick.desired) = Alex
  /\ nick.result = Numbered(Alex, 2)

\* the name had to be cut and every suffix was taken
C35_WitnessFull ==
  /\ nick.done
  /\ Len(nick.players) = 998
  /\ nick.result = Numbered(Alex, 999)

\* C4, on uniqueNickname alone: the name given to the new player is the name
\* of no participant of the room
C4_ResolvedNameIsFree ==
  nick.done => \A i \in 1..Len(nick.players) : nick.players[i].nickname # nick.result

\* the kinds of message that go to a whole room
C36_Broadcasts ==
  {"room_update", "starting", "game_started", "question", "question_over", "game_over",
   "host_left"}

\* the last handler sent a message of kind T to the room of PIN p (the
\* question a join sends to the new player alone is not one)
C36_Broadcast(T, p) ==
  /\ ~(T = "question" /\ lastOp.op = "join")
  /\ \E i \in 1..Len(sent) : sent[i].type = T /\ sent[i].pin = p

\* the copies of it written to connection c
C36_Copies(T, p, c) ==
  Cardinality({ i \in 1..Len(sent) : sent[i].type = T /\ sent[i].pin = p /\ sent[i].to = c })

\* the copies of it written for the room entry of id
C36_CopiesFor(T, p, id) ==
  Cardinality({ i \in 1..Len(sent) : sent[i].type = T /\ sent[i].pin = p /\ sent[i].via = id })

\* connection c is that of a participant of the room of PIN p
C36_InRoom(c, p) ==
  \E i \in 1..Len(rooms[p]) :
    Has(sockets, rooms[p][i].id) /\ sockets[rooms[p][i].id] = c

\* C36: every broadcast for a PIN is delivered exactly once to each
\* participant, the host included, that is in the room with an open channel,
\* and not at all to a participant whose channel is not open
C36_OnceToEachParticipant ==
  \A T \in C36_Broadcasts, p \in DOMAIN rooms :
    C36_Broadcast(T, p) =>
      \A c \in Conns :
        C36_Copies(T, p, c) = IF Open(c) /\ C36_InRoom(c, p) THEN 1 ELSE 0

\* every broadcast is written once for each entry of the room whose socket
\* is open and not at all for the other entries, which stay in the room
C36_OncePerRoomEntry ==
  \A T \in C36_Broadcasts, p \in DOMAIN rooms :
    C36_Broadcast(T, p) =>
      \A i \in 1..Len(rooms[p]) :
        LET id == rooms[p][i].id
        IN C36_CopiesFor(T, p, id) =
             IF Has(sockets, id) /\ Open(sockets[id]) THEN 1 ELSE 0

(***************************************************************************)
(* Two upsertRoom calls in progress at once.  Each await of the function   *)
(* is a point where the other call can run: after the call has started     *)
(* (await readRoomsFile), after the document to write has been computed    *)
(* (await fs.writeFile of the temp file) and after the temp file has been  *)
(* written (await fs.rename).                                              *)
(***************************************************************************)
Procs == {1, 2}

PinNew == <<"5">>

TitleS == <<"S">>
TitleT == <<" ", "T">>

\* what randomUUID gives the call of process p
KeyDrawn(p) == IF p = 1 THEN <<"x">> ELSE <<"y">>

\* the calls of the two editors: each either renames or re-quizzes a room of
\* its own, or creates a room
CallInputs(p) ==
  IF p = 1
  THEN { [title |-> TitleS, hasQuiz |-> FALSE, quiz |-> NoQuiz, pin |-> PinB, hostKey |-> KeyB],
         [title |-> TitleS, hasQuiz |-> TRUE, quiz |-> QuizA, pin |-> << >>, hostKey |-> << >>] }
  ELSE { [title |-> TitleT, hasQuiz |-> TRUE, quiz |-> QuizA, pin |-> PinC, hostKey |-> KeyB],
         [title |-> TitleT, hasQuiz |-> FALSE, quiz |-> NoQuiz, pin |-> << >>, hostKey |-> << >>] }

IdleCall ==
  [pc |-> "idle",
   params |-> [title |-> << >>, hasQuiz |-> FALSE, quiz |-> NoQuiz, pin |-> << >>,
               hostKey |-> << >>],
   plan |-> Thrown(<< >>, "")]

InitStore ==
  /\ Started /\ pts = NoPts /\ nick = NoNick /\ http = NoHttp
  /\ editor = [tmp |-> NoFile, calls |-> [p \in Procs |-> IdleCall]]

\* upsertRoom(params) is called and waits for readRoomsFile
Begin(p, params) ==
  /\ editor.calls[p].pc = "idle"
  /\ editor' = [editor EXCEPT !.calls[p].pc = "read", !.calls[p].params = params]
  /\ UNCHANGED <<ServerVars, pts, nick, http>>

\* the file has been read: the call throws, or computes its document and
\* waits for fs.writeFile
ReadDone(p, pinDrawn) ==
  LET call == editor.calls[p]
      plan == upsertPlan(roomsFile, call.params, pinDrawn, KeyDrawn(p))
  IN /\ call.pc = "read"
     /\ editor' = [editor EXCEPT
                     !.calls[p].plan = plan,
                     !.calls[p].pc = IF plan.error = "" THEN "write" ELSE "thrown"]
     /\ UNCHANGED <<ServerVars, pts, nick, http>>

\* fs.writeFile(tmpPath, content) has written the temp file
WriteTmp(p) ==
  /\ editor.calls[p].pc = "write"
  /\ editor' = [editor EXCEPT
                  !.tmp = [exists |-> TRUE, rooms |-> editor.calls[p].plan.rooms],
                  !.calls[p].pc = "rename"]
  /\ UNCHANGED <<ServerVars, pts, nick, http>>

\* fs.rename(tmpPath, filePath): the temp file becomes the rooms file, or
\* the rename fails because there is no temp file any more
Rename(p) ==
  /\ editor.calls[p].pc = "rename"
  /\ IF editor.tmp.exists
     THEN /\ roomsFile' = editor.tmp.rooms
          /\ editor' = [editor EXCEPT !.tmp = NoFile, !.calls[p].pc = "returned"]
     ELSE /\ editor' = [editor EXCEPT !.calls[p].pc = "thrown",
                                      !.calls[p].plan.error = "ENOENT"]
          /\ UNCHANGED roomsFile
  /\ UNCHANGED <<allowedPins, rooms, games, sockets, conn, timers, now, nextId, sent,
                 lastOp, hist, pts, nick, http>>

NextStore ==
  \/ \E p \in Procs : \E params \in CallInputs(p) : Begin(p, params)
  \/ \E p \in Procs, pinDrawn \in PinsDrawn(roomsFile, {PinNew, PinUnknown}) :
       ReadDone(p, pinDrawn)
  \/ \E p \in Procs : WriteTmp(p)
  \/ \E p \in Procs : Rename(p)

SpecStore == InitStore /\ [][NextStore]_vars

\* the rooms file shows what the call of process p has returned: the room it
\* created, or the title and the quiz it gave the room it updated
C37_InFile(p) ==
  LET call == editor.calls[p]
  IN \E i \in 1..Len(roomsFile) :
       /\ roomsFile[i].pin = call.plan.result.pin
       /\ roomsFile[i].hostKey = call.plan.result.hostKey
       /\ roomsFile[i].title = call.plan.result.title
       /\ call.params.hasQuiz => roomsFile[i].quiz = call.params.quiz

\* C37: once two upsertRoom calls that ran at the same time have both
\* returned, the rooms file holds the room each of them created or updated
C37_BothEffectsKept ==
  (\A p \in Procs : editor.calls # << >> /\ editor.calls[p].pc = "returned")
    => \A p \in Procs : C37_InFile(p)

(***************************************************************************)
(* The rooms API (route.ts of /api/rooms), one request at a time.          *)
(***************************************************************************)
\* POST: body.valid tells whether the body is an object with a string title
POST(file, body, pinDrawn, keyDrawn) ==
  IF ~body.valid
  THEN [status |-> 400, ok |-> FALSE, error |-> "INVALID_BODY", result |-> NoResult,
        rooms |-> file]
  ELSE LET r == upsertRoom(file, body.params, pinDrawn, keyDrawn)
       IN IF r.error = ""
          THEN [status |-> 200, ok |-> TRUE, error |-> "", result |-> r.result,
                rooms |-> r.rooms]
          ELSE [status |-> IF r.error \in {"HOST_KEY_INVALID", "PIN_NOT_FOUND"}
                           THEN 403 ELSE 500,
                ok |-> FALSE, error |-> r.error, result |-> NoResult, rooms |-> file]

\* the key check that lets every request through
KeyMatchesAny(room, hostKey) == TRUE

\* hostKey && room.hostKey === hostKey
KeyMatches(room, hostKey) == hostKey # << >> /\ room.hostKey = hostKey

\* ({ pin, title }) => ({ pin, title })
PinAndTitle(room) == [pin |-> room.pin, title |-> room.title]

\* GET: query.pin and query.hostKey are empty when the parameter is absent
GET(file, query) ==
  LET pin == Trim(query.pin)
      hostKey == Trim(query.hostKey)
      idx == findIndex(file, pin)
  IN IF pin = << >>
     THEN [status |-> 200, kind |-> "rooms",
           rooms |-> [i \in 1..Len(file) |-> PinAndTitle(file[i])]]
     ELSE IF idx = 0 THEN [status |-> 404, kind |-> "error", error |-> "NOT_FOUND"]
     ELSE IF KeyMatches(file[idx], hostKey)
     THEN [status |-> 200, kind |-> "room", room |-> file[idx]]
     ELSE [status |-> 200, kind |-> "room", room |-> PinAndTitle(file[idx])]

LongTitle == [i \in 1..81 |-> "t"]

\* a rooms file with a room that has no host key
RoomsJsonNoKey == [RoomsJson EXCEPT ![3].hostKey = << >>]

PostPins == {<<" ", "7">>, PinA, PinB, PinC, PinUnknown, << >>}
PostKeys == {KeyA, KeyB, <<"m", " ">>, << >>}
PostTitles == {TitleS, TitleT, << >>, LongTitle}

PostBodies ==
  { [valid |-> v,
     params |-> [title |-> t, hasQuiz |-> h, quiz |-> IF h THEN QuizA ELSE NoQuiz,
                 pin |-> p, hostKey |-> k]] :
      v \in BOOLEAN, t \in PostTitles, h \in BOOLEAN, p \in PostPins, k \in PostKeys }

InitPost ==
  /\ \E file \in {RoomsJson, RoomsJsonNoKey} : StartedWith(file)
  /\ pts = NoPts /\ nick = NoNick /\ editor = NoEditor
  /\ http \in { [method |-> "POST", body |-> b, before |-> f, response |-> NoResult,
                  done |-> FALSE] : b \in PostBodies, f \in {RoomsJson, RoomsJsonNoKey} }
  /\ http.before = roomsFile

Post(pinDrawn) ==
  /\ http.method = "POST" /\ ~http.done
  /\ LET res == POST(roomsFile, http.body, pinDrawn, KeyDrawn(1))
     IN /\ roomsFile' = res.rooms
        /\ http' = [http EXCEPT !.response = res, !.done = TRUE]
  /\ UNCHANGED <<allowedPins, rooms, games, sockets, conn, timers, now, nextId, sent,
                 lastOp, hist, pts, nick, editor>>

NextPost == \E pinDrawn \in PinsDrawn(roomsFile, {PinNew}) : Post(pinDrawn)

SpecPost == InitPost /\ [][NextPost]_vars

\* the first record of the file before the request that has the pin asked
\* for, 0 when there is none
C38_Index ==
  LET hits == { i \in 1..Len(http.before) : http.before[i].pin = http.body.params.pin }
  IN IF hits = {} THEN 0 ELSE CHOOSE i \in hits : \A j \in hits : i <= j

\* C38: upsertRoom with a pin changes that room only, and only when the
\* hostKey given equals the room's stored, non-empty hostKey; with a pin no
\* room has it fails with PIN_NOT_FOUND, with a missing or wrong hostKey with
\* HOST_KEY_INVALID, the rooms file as it was in both cases; an update that
\* succeeds leaves the pin and the hostKey of the room as they were.
C38_UpdateNeedsHostKey ==
  (http.method = "POST" /\ http.done /\ http.body.valid /\ http.body.params.pin # << >>) =>
    LET prm == http.body.params
        i == C38_Index
        res == http.response
    IN /\ i = 0 => res.error = "PIN_NOT_FOUND" /\ roomsFile = http.before
       /\ (i # 0 /\ (prm.hostKey = << >> \/ prm.hostKey # http.before[i].hostKey))
            => res.error = "HOST_KEY_INVALID" /\ roomsFile = http.before
       /\ roomsFile # http.before
            => /\ i # 0 /\ http.before[i].hostKey # << >>
               /\ http.before[i].hostKey = prm.hostKey
       /\ res.error = ""
            => /\ i # 0
               /\ Len(roomsFile) = Len(http.before)
               /\ \A j \in 1..Len(roomsFile) : j # i => roomsFile[j] = http.before[j]
               /\ roomsFile[i].pin = http.before[i].pin
               /\ roomsFile[i].hostKey = http.before[i].hostKey
               /\ res.result.pin = http.before[i].pin
               /\ res.result.hostKey = http.before[i].hostKey

\* an update with the right key has renamed a room
C38_Witness ==
  /\ http.method = "POST" /\ http.done
  /\ http.body.params.pin = PinB /\ http.body.params.hostKey = KeyB
  /\ http.response.error = ""
  /\ roomsFile # http.before
  /\ roomsFile[2].title = TitleS /\ roomsFile[2].pin = PinB /\ roomsFile[2].hostKey = KeyB

\* an update with the key of another room has just been refused
C38_WitnessRefused ==
  /\ http.method = "POST" /\ http.done
  /\ http.body.params.pin = PinB /\ http.body.params.hostKey = KeyA
  /\ http.response.error = "HOST_KEY_INVALID" /\ http.response.status = 403
  /\ roomsFile = http.before

(***************************************************************************)
(* GET /api/rooms on two rooms files that differ in the hostKey and the    *)
(* quiz of one room only.                                                  *)
(***************************************************************************)
KeyOther == <<"z">>

GetPins == {<< >>, <<" ">>, PinA, PinB, <<" ", "6">>, PinUnknown}
GetKeys == {<< >>, KeyA, KeyB, <<" ", "m">>, KeyOther}

\* the file with another hostKey and another quiz in room i
Variants(file) ==
  { [file EXCEPT ![i].hostKey = k, ![i].quiz = z] :
      i \in 1..Len(file), k \in {KeyA, KeyB, << >>}, z \in {NoQuiz, QuizA} }

InitGet ==
  /\ Started /\ pts = NoPts /\ nick = NoNick /\ editor = NoEditor
  /\ http \in { [method |-> "GET", query |-> [pin |-> p, hostKey |-> k], other |-> f,
                  response |-> NoResult, responseOther |-> NoResult, done |-> FALSE] :
                 p \in GetPins, k \in GetKeys, f \in Variants(RoomsJson) }

Get ==
  /\ http.method = "GET" /\ ~http.done
  /\ http' = [http EXCEPT !.response = GET(roomsFile, http.query),
                          !.responseOther = GET(http.other, http.query),
                          !.done = TRUE]
  /\ UNCHANGED <<ServerVars, pts, nick, editor>>

NextGet == Get

SpecGet == InitGet /\ [][NextGet]_vars

\* the response shows nothing but pins and titles
C39_Public(res) ==
  \/ res.kind = "error"
  \/ res.kind = "rooms" /\ \A i \in 1..Len(res.rooms) : DOMAIN res.rooms[i] = {"pin", "title"}
  \/ res.kind = "room" /\ DOMAIN res.room = {"pin", "title"}

\* the request gives, spaces around it set aside, the non-empty hostKey
\* stored with the pin it asks for
C39_KeyGivenTrimmed(file) ==
  /\ Trim(http.query.hostKey) # << >>
  /\ \E i \in 1..Len(file) :
       /\ \A j \in 1..(i - 1) : file[j].pin # Trim(http.query.pin)
       /\ file[i].pin = Trim(http.query.pin)
       /\ file[i].hostKey = Trim(http.query.hostKey)

\* C39: a response shows a hostKey or a quiz only when the request gives the
\* non-empty hostKey stored with the room; on two files that differ in the
\* hostKey and the quiz of a room only, the list and a lookup whose hostKey
\* is missing or matches in neither file get the same response, made of
\* pins and titles only.
C39_KeyAndQuizHidden ==
  (http.method = "GET" /\ http.done) =>
    /\ ~C39_Public(http.response) => C39_KeyGivenTrimmed(roomsFile)
    /\ ~C39_Public(http.responseOther) => C39_KeyGivenTrimmed(http.other)
    /\ (~C39_KeyGivenTrimmed(roomsFile) /\ ~C39_KeyGivenTrimmed(http.other))
         => /\ http.response = http.responseOther
            /\ C39_Public(http.response)

\* a lookup of room 8 with a key that is not its key, on two files that
\* store different keys and quizzes for room 8, has got the pin and title
C39_Witness ==
  /\ http.method = "GET" /\ http.done
  /\ http.query.pin = PinB /\ http.query.hostKey = KeyOther
  /\ roomsFile[2].hostKey # http.other[2].hostKey
  /\ roomsFile[2].quiz # http.other[2].quiz
  /\ http.response = [status |-> 200, kind |-> "room",
                       room |-> [pin |-> PinB, title |-> TitleB]]
  /\ http.responseOther = http.response

====
